---- MODULE Spec2Model ----
(***************************************************************************)
(* Model of Paperchain/papergres: the Repeat runner (Repeat.Exec and       *)
(* mergeErrs), the Result model (newMeta, setMeta, execCommand) and the    *)
(* process-wide connection cache (open, getDriver, Reset, Shutdown).       *)
(*                                                                         *)
(* Text is modelled as a sequence of characters, an error as a sequence of *)
(* at most one text (<<>> is Go's nil error), a pointer to a Result as a   *)
(* sequence of at most one Result (<<>> is the nil pointer).               *)
(***************************************************************************)
EXTENDS Integers, Sequences, FiniteSets, TLC

\* ------------------------------------------------------------------------
\* Bounds of the model
\* ------------------------------------------------------------------------
MaxN == 3
MaxMsgLen == 2
MaxHandles == 4
NumCallers == 2

\* ------------------------------------------------------------------------
\* Text and errors
\* ------------------------------------------------------------------------
NL == "\n"

Chars == {"a", NL}

RECURSIVE SeqsUpTo(_, _)
SeqsUpTo(S, n) ==
    IF n = 0 THEN {<<>>}
    ELSE LET shorter == SeqsUpTo(S, n - 1)
         IN  shorter \cup {Append(s, c) : s \in shorter, c \in S}

\* the texts a driver error can carry
Msgs == SeqsUpTo(Chars, MaxMsgLen)

Nil == <<>>

\* errors.New(s)
NewError(s) == <<s>>

\* err.Error()
ErrorText(e) == e[1]

\* fmt.Sprintln(e): the text of e followed by one newline
Sprintln(e) == ErrorText(e) \o <<NL>>

\* strings.TrimRight(s, "\n"): drops every trailing newline
RECURSIVE TrimRightNL(_)
TrimRightNL(s) ==
    IF s # <<>> /\ s[Len(s)] = NL
    THEN TrimRightNL(SubSeq(s, 1, Len(s) - 1))
    ELSE s

RECURSIVE ConcatLines(_)
ConcatLines(errs) ==
    IF errs = <<>> THEN <<>>
    ELSE (IF Head(errs) # Nil THEN Sprintln(Head(errs)) ELSE <<>>)
         \o ConcatLines(Tail(errs))

\* a merge without the test for the empty text
mergeErrsAlways(errs) == NewError(TrimRightNL(ConcatLines(errs)))

mergeErrs(errs) ==
    LET s == TrimRightNL(ConcatLines(errs))
    IN  IF s # <<>> THEN NewError(s) ELSE Nil

\* ------------------------------------------------------------------------
\* Result model
\* ------------------------------------------------------------------------
\* a PrimaryKey is an interface{}: a dynamic type and a value
IntKey(v) == [type |-> "int", val |-> v]
Int64Key(v) == [type |-> "int64", val |-> v]
NilKey == [type |-> "nil", val |-> 0]

newMeta == [LastInsertId |-> IntKey(0), RowsAffected |-> -1]

NewResult ==
    [LastInsertId |-> [ID |-> NilKey, Err |-> Nil],
     RowsAffected |-> [Count |-> 0, Err |-> Nil],
     RowsReturned |-> 0,
     Err |-> Nil]

NoLastInsertId == NewError(<<"no LastInsertId returned">>)
NoRowsAffected == NewError(<<"no RowsAffected returned">>)

\* m.LastInsertId == 0 compares an interface{} with the untyped constant 0,
\* that is with int(0): equal only for the same dynamic type and value
setMeta(r, m) ==
    [r EXCEPT
       !.LastInsertId = [ID |-> m.LastInsertId,
                         Err |-> IF m.LastInsertId = IntKey(0)
                                 THEN NoLastInsertId ELSE r.LastInsertId.Err],
       !.RowsAffected = [Count |-> m.RowsAffected,
                         Err |-> IF m.RowsAffected = -1
                                 THEN NoRowsAffected ELSE r.RowsAffected.Err]]

\* ------------------------------------------------------------------------
\* Connections and Database objects
\* ------------------------------------------------------------------------
SSLDisable == "disable"

TestConn ==
    [Database |-> "paperchain", User |-> "postgres", Password |-> "postgres",
     Host |-> "localhost", Port |-> "5432", AppName |-> "papergres_tests",
     Timeout |-> 0, SSLMode |-> SSLDisable, SSLCert |-> "", SSLKey |-> "",
     SSLRootCert |-> ""]

\* the connections of the model: the test connection, the same server
\* without a database name (what CreateDatabase switches to) and another
\* database of that server
Connections ==
    {[TestConn EXCEPT !.Database = d] : d \in {"", "paperchain", "myDatabase"}}

\* fmt.Sprintf("%v", n) for the timeouts of the model
IntText(n) == CASE n = 0 -> "0" [] n = 1 -> "1" [] OTHER -> "n"

Setting(key, val) == IF val # "" THEN <<key, val, " ">> ELSE <<>>

\* Connection.String: the DSN, one `key=value ` per non-empty setting
String(conn) ==
    Setting("dbname=", conn.Database)
    \o Setting("user=", conn.User)
    \o Setting("password=", conn.Password)
    \o Setting("host=", conn.Host)
    \o Setting("port=", conn.Port)
    \o Setting("fallback_application_name=", conn.AppName)
    \o Setting("sslmode=", conn.SSLMode)
    \o Setting("sslcert=", conn.SSLCert)
    \o Setting("sslkey=", conn.SSLKey)
    \o Setting("sslrootcert=", conn.SSLRootCert)
    \o <<"connect_timeout=", IntText(conn.Timeout), " ">>

NumDatabases == 2

DbIds == 1..NumDatabases

\* Connection.NewDatabase
NewDatabase(conn) == [conn |-> conn, connString |-> <<>>]

\* Database.ConnectionString: the value returned ...
ConnectionString(db) ==
    IF db.connString # <<>> THEN db.connString ELSE String(db.conn)

\* ... and the Database afterwards (the rendering is cached)
CachedConnectionString(db) == [db EXCEPT !.connString = ConnectionString(db)]

\* Database.Query
Query(d, sql, args) ==
    [SQL |-> sql, Database |-> d, Args |-> args, insert |-> FALSE]

NoQuery == Query(0, "", <<>>)

\* ------------------------------------------------------------------------
\* State
\* ------------------------------------------------------------------------
VARIABLES
    openDBs,      \* package variable openDBs: connection string -> handle
    sqlDriver,    \* package variable sqlDriver
    handles,      \* every *sqlx.DB created so far: [conn, closed]
    databases,    \* the Database objects of the callers
    lastOp,       \* the last call on the cache and what it returned
    callers,      \* goroutines calling open concurrently
    fatal,        \* the runtime has stopped the process (concurrent map access)
    query,        \* Repeat.Query, the template
    N,            \* Repeat.N
    pc,           \* position of Repeat.Exec
    db,           \* Exec's local db
    stmt,         \* the prepared statement: "none", "open", "closed"
    deferred,     \* whether Exec has deferred stmt.Close()
    i,            \* the loop variable of Exec
    wg,           \* the WaitGroup counter
    iterPc,       \* position of each iteration's closure
    qs,           \* each iteration's query
    dests,        \* length of the slice each iteration's dest points to
    work,         \* each iteration's Result inside execCommand
    results,      \* Exec's local results
    errs,         \* Exec's local errs
    ret,          \* what Exec returned
    prepares,     \* number of Preparex calls
    prepareErr,   \* the error Preparex returned
    closes,       \* number of stmt.Close calls
    paramsCalls,  \* number of ParamsFn calls per index
    driverLog,    \* the executions the prepared statement has seen
    arg,          \* the arguments of the call under study
    out,          \* what that call returned
    Log,          \* whether a Logger is installed in the package variable Log
    logs,         \* what the installed Logger has been handed, in order
    table         \* the rows of the table the inserts go to, by key

cacheVars == <<openDBs, sqlDriver, handles, databases, lastOp>>

repeatVars ==
    <<query, N, pc, db, stmt, deferred, i, wg, iterPc, qs, dests, work,
      results, errs, ret, prepares, prepareErr, closes, paramsCalls,
      driverLog>>

callerVars == <<callers, fatal>>

callVars == <<arg, out>>

envVars == <<Log, logs, table>>

vars == <<cacheVars, callerVars, repeatVars, callVars, envVars>>

\* ------------------------------------------------------------------------
\* The connection cache
\* ------------------------------------------------------------------------
\* sql.Drivers(): the package imports exactly one driver
Drivers == <<"postgres">>

\* getDriver: the driver name, cached in sqlDriver
getDriver(cached) == IF cached # "" THEN cached ELSE Drivers[1]

\* the handle sqlx.Open creates
NewHandle(conn) == [conn |-> conn, closed |-> FALSE]

\* a lookup that never finds the string
CachedNever(cache, conn) == FALSE

\* open: the lookup `if db, ok := openDBs[conn]; ok`
Cached(cache, conn) == conn \in DOMAIN cache

\* open: `openDBs[conn] = db`
Store(cache, conn, h) == (conn :> h) @@ cache

\* open(conn) as one call: <<handle returned, cache, handles, driver>>
open(cache, hs, driver, conn) ==
    IF Cached(cache, conn)
    THEN [db |-> cache[conn], openDBs |-> cache, handles |-> hs,
          sqlDriver |-> driver]
    ELSE [db |-> Len(hs) + 1,
          openDBs |-> Store(cache, conn, Len(hs) + 1),
          handles |-> Append(hs, NewHandle(conn)),
          sqlDriver |-> getDriver(driver)]

\* a Shutdown that closes nothing
ShutdownHandlesNone(cache, hs) == hs

\* Shutdown: closes every cached handle, the map is left as it is
ShutdownHandles(cache, hs) ==
    [h \in DOMAIN hs |->
        IF \E c \in DOMAIN cache : cache[c] = h
        THEN [hs[h] EXCEPT !.closed = TRUE] ELSE hs[h]]

NoOp == [op |-> "none", conn |-> <<>>, db |-> 0]

CacheInit ==
    /\ openDBs = <<>>
    /\ sqlDriver = ""
    /\ handles = <<>>
    /\ lastOp = NoOp

(***************************************************************************)
(* The insert statement builder (schema.go) and the reflect helpers it     *)
(* reads a record through.  A statement is a text: the sequence of its     *)
(* pieces in order, literal pieces of the format strings kept whole and    *)
(* names spelt character by character.                                     *)
(***************************************************************************)

\* most fields of a record
MaxFields == 3

UpperCase == <<"A", "B", "C", "D", "E", "F", "G", "H", "I", "J", "K", "L", "M",
               "N", "O", "P", "Q", "R", "S", "T", "U", "V", "W", "X", "Y", "Z">>

LowerCase == <<"a", "b", "c", "d", "e", "f", "g", "h", "i", "j", "k", "l", "m",
               "n", "o", "p", "q", "r", "s", "t", "u", "v", "w", "x", "y", "z">>

\* unicode.IsUpper
IsUpper(c) == \E k \in DOMAIN UpperCase : UpperCase[k] = c

\* strings.ToLower of one character
ToLower(c) ==
    IF IsUpper(c)
    THEN LowerCase[CHOOSE k \in DOMAIN UpperCase : UpperCase[k] = c]
    ELSE c

\* an underscore before every upper-case letter, the first included
needsUnderscoreAlways(c, s) == IsUpper(c)

\* goToSQLName's test: c is upper-case and s is not empty yet
needsUnderscore(c, s) == IsUpper(c) /\ s # <<>>

\* goToSQLName: s after the loop has consumed name
RECURSIVE goToSQLName(_)
goToSQLName(name) ==
    IF name = <<>> THEN <<>>
    ELSE LET s == goToSQLName(SubSeq(name, 1, Len(name) - 1))
             c == name[Len(name)]
         IN  (IF needsUnderscore(c, s) THEN s \o <<"_">> ELSE s)
                 \o <<ToLower(c)>>

\* strconv.ParseBool with its error dropped: the spellings of true give
\* true, everything else (spellings of false, and errors) gives false
ParseBool(str) == str \in {"1", "t", "T", "TRUE", "true", "True"}

\* type and field names of the records
BookType == <<"B", "o", "o", "k">>

TestTableObjType == <<"T", "e", "s", "t", "T", "a", "b", "l", "e", "O", "b", "j">>

TypeNames == {BookType, TestTableObjType}

FieldNames == << <<"B", "o", "o", "k", "I", "d">>,
                 <<"T", "i", "t", "l", "e">>,
                 <<"C", "r", "e", "a", "t", "e", "d", "B", "y">>,
                 <<"I", "D">>,
                 <<"A", "u", "t", "h", "o", "r">> >>

\* the `db` tags a field may carry: none, or a column name of its own
DbTags == << <<"b", "o", "o", "k", "_", "i", "d">>,
             <<"t", "i", "t", "l", "e">>,
             <<"c", "r", "e", "a", "t", "o", "r">>,
             <<"i", "d">>,
             <<"w", "r", "i", "t", "e", "r">> >>

NameAt(names, k) == names[((k - 1) % Len(names)) + 1]

\* the `db_pk` tags a field may carry: none, a spelling of true, and a
\* text ParseBool rejects
PkTags == {"", "true", "yes"}

\* the declared types of the fields: PrimaryKey is interface{}
PrimaryKeyType == <<"PrimaryKey">>

FieldTypes == <<PrimaryKeyType, <<"string">>, <<"string">>, <<"int64">>,
                <<"string">> >>

\* the value of an interface field that holds nothing
NilValue == 0

\* a struct field as declared: name, type, tags and the value it holds
StructField(k, tagged, pk, base) ==
    [Name  |-> NameAt(FieldNames, k),
     Type  |-> NameAt(FieldTypes, k),
     db    |-> IF tagged THEN NameAt(DbTags, k) ELSE <<>>,
     db_pk |-> pk,
     Value |-> base + k]

\* the struct values with n fields whose values start after base
StructsOf(n, base) ==
    { [k \in 1..n |-> StructField(k, tagged[k], pk[k], base)] :
        tagged \in [1..n -> BOOLEAN], pk \in [1..n -> PkTags] }

\* the struct values of type t: up to MaxFields fields
Structs(t) ==
    { [kind |-> "struct", type |-> t, fields |-> fs] :
        fs \in UNION { StructsOf(n, 10) : n \in 0..MaxFields } }

\* a record handed to the builder: a struct or a pointer to one
Objects ==
    LET structs == UNION { Structs(t) : t \in TypeNames }
    IN  structs \cup { [kind |-> "ptr", elem |-> v] : v \in structs }

\* the same record with nothing in its first field, a PrimaryKey: what
\* Book{Title: ...} is before the database has generated its key
NilKeyed(o) ==
    IF o.kind = "ptr"
    THEN [o EXCEPT !.elem.fields[1].Value = NilValue]
    ELSE [o EXCEPT !.fields[1].Value = NilValue]

\* the records whose key is not set yet
NilKeyObjects ==
    { NilKeyed(o) :
        o \in { x \in Objects :
                  (IF x.kind = "ptr" THEN x.elem ELSE x).fields # <<>> } }

\* isPointer
isPointer(v) == v.kind = "ptr"

\* isSlice
isSlice(v) == v.kind = "slice"

\* getTypeName: a pointer gives the name of what it points to, a slice
\* "[]" and the name of its element type
getTypeName(v) ==
    CASE v.kind = "ptr"   -> v.elem.type
      [] v.kind = "slice" -> <<"[]">> \o v.elemType
      [] OTHER            -> v.type

\* f.Interface(): the value of a struct field as an interface{}; a field
\* of an interface type gives what it holds, an int when a key is set and
\* the nil interface when nothing is
Interface(sf) ==
    CASE sf.Type # PrimaryKeyType -> [kind |-> "value", type |-> sf.Type]
      [] sf.Value = NilValue      -> [kind |-> "nil"]
      [] OTHER                    -> [kind |-> "value", type |-> <<"int">>]

\* reflect.TypeOf of the nil interface is nil, and t.Kind() on it is a nil
\* dereference: getTypeName, isSlice and isPointer panic
typeOfPanics(v) == v.kind = "nil"

\* fields panics when getTypeName(f.Interface()) does for some field
fieldsPanics(v) ==
    LET val == IF isPointer(v) THEN v.elem ELSE v
    IN  \E k \in DOMAIN val.fields : typeOfPanics(Interface(val.fields[k]))

\* fields: one Field per struct field, in declared order (the list it
\* returns when it does not panic)
fields(v) ==
    LET val == IF isPointer(v) THEN v.elem ELSE v
    IN  [k \in DOMAIN val.fields |->
            [Value     |-> val.fields[k].Value,
             Typeof    |-> IF typeOfPanics(Interface(val.fields[k])) THEN <<>>
                           ELSE getTypeName(Interface(val.fields[k])),
             Name      |-> val.fields[k].Name,
             Tag       |-> val.fields[k].db,
             IsPrimary |-> ParseBool(val.fields[k].db_pk)]]

\* every field is listed, the primary one too
skippedNever(f, withPK) == FALSE

\* prepareFields' `continue`: a primary field is left out of nfields
\* unless withPK
skipped(f, withPK) == f.IsPrimary /\ ~withPK

\* prepareFields over the Fields fs: nfields, and primary as a pointer (a
\* sequence of at most one Field) to the last primary field seen
RECURSIVE prepareFields(_, _)
prepareFields(fs, withPK) ==
    IF fs = <<>> THEN [nfields |-> <<>>, primary |-> <<>>]
    ELSE LET rest == prepareFields(SubSeq(fs, 1, Len(fs) - 1), withPK)
             f    == fs[Len(fs)]
         IN  [nfields |-> IF skipped(f, withPK) THEN rest.nfields
                          ELSE rest.nfields \o <<f>>,
              primary |-> IF f.IsPrimary THEN <<f>> ELSE rest.primary]

\* getColumnName that always converts the field name
getColumnNameNoTag(f) == goToSQLName(f.Name)

\* getColumnName of the Field f
getColumnName(f) == IF f.Tag # <<>> THEN f.Tag ELSE goToSQLName(f.Name)

\* fmt's %v of a non-negative int
RECURSIVE FormatInt(_)
FormatInt(n) ==
    LET digit == <<"0", "1", "2", "3", "4", "5", "6", "7", "8", "9">>[(n % 10) + 1]
    IN  IF n < 10 THEN <<digit>> ELSE FormatInt(n \div 10) \o <<digit>>

\* strings.TrimRight(text, ",")
RECURSIVE TrimRightComma(_)
TrimRightComma(text) ==
    IF text # <<>> /\ text[Len(text)] = ","
    THEN TrimRightComma(SubSeq(text, 1, Len(text) - 1))
    ELSE text

\* the loop of insertSQL over fs[1..k]: what it appended to sql and values
RECURSIVE ColumnLines(_, _)
ColumnLines(fs, k) ==
    IF k = 0 THEN [sql |-> <<>>, values |-> <<>>]
    ELSE LET before == ColumnLines(fs, k - 1)
         IN  [sql    |-> before.sql \o <<"\n\t">> \o getColumnName(fs[k]) \o <<",">>,
              values |-> before.values \o <<"\n\t$">> \o FormatInt(k) \o <<",">>]

\* insertSQL; a panic of fields, and dereferencing the nil primary in the
\* RETURNING line, panic
insertSQL(obj, schema, withPK) ==
    LET tname  == <<schema, ".">> \o goToSQLName(getTypeName(obj))
        pf     == prepareFields(fields(obj), withPK)
        lines  == ColumnLines(pf.nfields, Len(pf.nfields))
        sql1   == TrimRightComma(<<"INSERT INTO ">> \o tname \o <<" (">> \o lines.sql)
        sql2   == TrimRightComma(sql1 \o <<"\n)\nVALUES (">> \o lines.values)
                      \o <<"\n)\n">>
    IN  IF fieldsPanics(obj) \/ pf.primary = <<>>
        THEN [panicked |-> TRUE, sql |-> <<>>]
        ELSE [panicked |-> FALSE,
              sql |-> sql2 \o <<"RETURNING ">> \o getColumnName(pf.primary[1])
                           \o <<" as LastInsertId;">>]

\* insertArgs that takes every field whatever withPK is
insertArgsAll(obj, withPK) ==
    LET final == prepareFields(fields(obj), TRUE).nfields
    IN  [k \in DOMAIN final |-> final[k].Value]

\* insertArgs: the values of the prepared fields
insertArgs(obj, withPK) ==
    LET final == prepareFields(fields(obj), withPK).nfields
    IN  [k \in DOMAIN final |-> final[k].Value]

\* Schema.generateInsertQuery on database d; a panic of insertSQL leaves
\* no query
generateInsertQuery(d, schema, obj, withPK) ==
    LET built == insertSQL(obj, schema, withPK)
    IN  IF built.panicked
        THEN [panicked |-> TRUE, query |-> NoQuery]
        ELSE [panicked |-> FALSE,
              query |-> [Query(d, built.sql, insertArgs(obj, withPK))
                            EXCEPT !.insert = TRUE]]

\* ------------------------------------------------------------------------
\* Repeat.Exec
\* ------------------------------------------------------------------------
InsertSQL == "INSERT INTO paper.book (title) VALUES ($1) RETURNING book_id as LastInsertId;"

SelectSQL == "SELECT * FROM paper.character WHERE book_id = $1;"

\* the indexes 0 .. r.N-1 of one Exec call
Idx == 0..(N - 1)

\* r.ParamsFn(k): the destination and the arguments of iteration k.  The
\* closure InsertAll passes returns no destination and the insert arguments
\* of slice[k]; any other Repeat has a destination and arguments of its
\* own per index
ParamsFn(k) ==
    IF arg.fn = "InsertAll"
    THEN [dest |-> k, args |-> insertArgs(arg.objs.elems[k + 1], FALSE)]
    ELSE [dest |-> k, args |-> <<10 + k>>]

\* what the driver can answer to stmt.Get(&meta, args...): an error, or one
\* row whose LastInsertId column is NULL, an int64 zero or a generated key
GetReplies ==
    {[err |-> NewError(m), key |-> NilKey, rows |-> 0] : m \in Msgs}
    \cup {[err |-> Nil, key |-> k, rows |-> 1] :
            k \in {NilKey, Int64Key(0), Int64Key(7)}}

\* what the driver can answer to stmt.Select(dest, args...): an error, or
\* the rows it appended to dest
SelectReplies ==
    {[err |-> NewError(m), key |-> NilKey, rows |-> 0] : m \in Msgs}
    \cup {[err |-> Nil, key |-> NilKey, rows |-> n] : n \in {0, 2}}

\* the error Preparex can return
PrepareErrors == {Nil, NewError(<<"p", "q">>)}

NilSlice == [nil |-> TRUE, elems |-> <<>>]

Slice(elems) == [nil |-> FALSE, elems |-> elems]

NoReturn == [returned |-> FALSE, results |-> NilSlice, err |-> Nil]

\* `return results, err`
Return(res, err) == [returned |-> TRUE, results |-> res, err |-> err]

\* a failed prepare that loses its error
PrepareFailedSilent(err) == Return(NilSlice, Nil)

\* the return on a failed prepare: `return nil, err`
PrepareFailed(err) == Return(NilSlice, err)

\* a Close deferred before the error check
DeferCloseAlways(err) == TRUE

\* `defer stmt.Close()` comes after the early return of a failed prepare
DeferClose(err) == err = Nil

\* the loop body as a go statement: an iteration starts whenever it is idle
CanLaunchGo(k) == iterPc[k] = "idle"

\* the loop body is a plain call `func(i int) {...}(i)`, not a go statement:
\* iteration k starts when the loop variable has reached k
CanLaunch(k) == k = i /\ iterPc[k] = "idle"

\* a store that ignores the index
StoreResultFirst(res, k, r) == [res EXCEPT ![0] = <<r>>]

\* `results[i] = result`
StoreResult(res, k, r) == [res EXCEPT ![k] = <<r>>]

\* `if result.Err != nil { errs = append(errs, result.Err) }`
CollectErr(es, r) == IF r.Err # Nil THEN Append(es, r.Err) ELSE es

\* a loop that stops at the first failed iteration
NextIndexAbort(k, r) == IF r.Err # Nil THEN N ELSE k + 1

\* the closure has returned: the loop goes on with i++ whatever the result
NextIndex(k, r) == k + 1

\* the insert branch of cmd: meta := newMeta(); stmt.Get(&meta, ...);
\* result.setMeta(meta)
InsertCmd(r, reply) ==
    LET meta == IF reply.err = Nil
                THEN [newMeta EXCEPT !.LastInsertId = reply.key]
                ELSE newMeta
    IN  setMeta(r, meta)

\* getLen(dest)
getLen(len) == IF len >= 0 THEN len ELSE 0

\* the select branch of cmd: result.RowsReturned = getLen(dest)
SelectCmd(r, len) == [r EXCEPT !.RowsReturned = getLen(len)]

\* execCommand: r := NewResult(); r.Err = cmd(r)
execCommand(r, err) == [r EXCEPT !.Err = err]

\* logDebug: nothing without a Logger, else Log.Debug is handed the text
logDebug(lg, l) == IF ~Log THEN lg ELSE Append(lg, l)

\* logQuery: the query and the result as they are when it runs, and the
\* additional info, go to logDebug
logQuery(lg, q, res, info) ==
    logDebug(lg, [query |-> q, result |-> res, info |-> info])

\* a logQuery that runs before the command's error is stored
loggedEarly(lg, q, r, err, info) == logQuery(lg, q, r, info)

\* `defer logQuery(q, r, ...)` in execCommand: it runs when execCommand
\* returns, after r.Err = cmd(r)
logged(lg, q, r, err, info) == logQuery(lg, q, execCommand(r, err), info)

\* an iteration that takes its mode from its own query
insertModeOfIteration(k) == qs[k].insert

\* `if r.Query.insert`: the mode of iteration k is the template's flag
insertMode(k) == query.insert

\* a per-iteration query that keeps the template's arguments in front
IterQueryShared(k) ==
    Query(query.Database, query.SQL, query.Args \o ParamsFn(k).args)

\* qs := r.Query.Database.Query(r.Query.SQL, args...)
IterQuery(k) == Query(query.Database, query.SQL, ParamsFn(k).args)

RepeatInit ==
    /\ N \in 0..MaxN
    /\ \E ins \in BOOLEAN :
          query = [Query(1, IF ins THEN InsertSQL ELSE SelectSQL, <<0>>)
                     EXCEPT !.insert = ins]
    /\ pc = "start"
    /\ db = 0
    /\ stmt = "none"
    /\ deferred = FALSE
    /\ i = 0
    /\ wg = 0
    /\ iterPc = [k \in Idx |-> "idle"]
    /\ qs = [k \in Idx |-> NoQuery]
    /\ dests = [k \in Idx |-> 0]
    /\ work = [k \in Idx |-> NewResult]
    /\ results = <<>>
    /\ errs = <<>>
    /\ ret = NoReturn
    /\ prepares = 0
    /\ prepareErr = Nil
    /\ closes = 0
    /\ paramsCalls = [k \in Idx |-> 0]
    /\ driverLog = <<>>

\* db := open(r.Query.Database.ConnectionString())
RepeatOpen ==
    /\ pc = "start"
    /\ LET d == query.Database
           conn == ConnectionString(databases[d])
           o == open(openDBs, handles, sqlDriver, conn)
       IN  /\ databases' =
                [databases EXCEPT ![d] = CachedConnectionString(@)]
           /\ openDBs' = o.openDBs
           /\ handles' = o.handles
           /\ sqlDriver' = o.sqlDriver
           /\ db' = o.db
           /\ lastOp' = [op |-> "open", conn |-> conn, db |-> o.db]
    /\ pc' = "opened"
    /\ UNCHANGED <<callerVars, query, N, stmt, deferred, i, wg, iterPc, qs,
                   dests, work, results, errs, ret, prepares, prepareErr, closes,
                   paramsCalls, driverLog,
                   callVars, envVars>>

\* stmt, err := db.Preparex(r.Query.SQL); on an error Exec returns at once,
\* otherwise it defers the Close and makes results, errs and wg
Prepare ==
    /\ pc = "opened"
    /\ \E err \in PrepareErrors :
          /\ prepares' = prepares + 1
          /\ prepareErr' = err
          /\ deferred' = DeferClose(err)
          /\ IF err # Nil
             THEN /\ ret' = PrepareFailed(err)
                  /\ pc' = "defers"
                  /\ UNCHANGED <<stmt, results>>
             ELSE /\ stmt' = "open"
                  /\ results' = [k \in Idx |-> <<>>]
                  /\ pc' = "loop"
                  /\ UNCHANGED ret
    /\ UNCHANGED <<cacheVars, callerVars, query, N, db, i, wg, iterPc, qs,
                   dests, work, errs, closes, paramsCalls, driverLog,
                   callVars, envVars>>

\* wg.Add(1); the closure starts: dest, args := r.ParamsFn(i);
\* qs := r.Query.Database.Query(r.Query.SQL, args...)
IterParams(k) ==
    /\ pc = "loop"
    /\ k \in Idx
    /\ CanLaunch(k)
    /\ wg' = wg + 1
    /\ paramsCalls' = [paramsCalls EXCEPT ![k] = @ + 1]
    /\ qs' = [qs EXCEPT ![k] = IterQuery(k)]
    /\ iterPc' = [iterPc EXCEPT ![k] = "params"]
    /\ UNCHANGED <<cacheVars, callerVars, query, N, pc, db, stmt, deferred, i,
                   dests, work, results, errs, ret, prepares, prepareErr, closes,
                   driverLog,
                   callVars, envVars>>

\* execCommand(qs, cmd, ...): the statement is executed with qs.Args and the
\* driver answers; cmd fills the Result and execCommand records the error
IterExec(k) ==
    /\ k \in Idx
    /\ iterPc[k] = "params"
    /\ \E reply \in (IF insertMode(k) THEN GetReplies ELSE SelectReplies) :
          /\ driverLog' = Append(driverLog,
                [args |-> qs[k].Args, stmt |-> stmt, reply |-> reply])
          /\ IF insertMode(k)
             THEN UNCHANGED dests
             ELSE dests' = [dests EXCEPT ![ParamsFn(k).dest] =
                               IF reply.err = Nil THEN reply.rows ELSE @]
          /\ LET r == IF insertMode(k) THEN InsertCmd(NewResult, reply)
                      ELSE SelectCmd(NewResult, dests'[ParamsFn(k).dest])
             IN  /\ work' = [work EXCEPT ![k] = execCommand(r, reply.err)]
                 /\ logs' = logged(logs, qs[k], r, reply.err, <<k + 1, N>>)
    /\ iterPc' = [iterPc EXCEPT ![k] = "executed"]
    /\ UNCHANGED <<cacheVars, callerVars, query, N, pc, db, stmt, deferred, i,
                   wg, qs, results, errs, ret, prepares, prepareErr, closes,
                   paramsCalls,
                   callVars, Log, table>>

\* results[i] = result; the error, if any, is appended to errs; the deferred
\* wg.Done() runs, the closure returns and the loop steps
IterStore(k) ==
    /\ k \in Idx
    /\ iterPc[k] = "executed"
    /\ results' = StoreResult(results, k, work[k])
    /\ errs' = CollectErr(errs, work[k])
    /\ wg' = wg - 1
    /\ i' = NextIndex(i, work[k])
    /\ iterPc' = [iterPc EXCEPT ![k] = "done"]
    /\ UNCHANGED <<cacheVars, callerVars, query, N, pc, db, stmt, deferred, qs,
                   dests, work, ret, prepares, prepareErr, closes, paramsCalls,
                   driverLog,
                   callVars, envVars>>

\* the loop has ended and wg.Wait() has passed:
\* `return results, mergeErrs(errs)` evaluates what Exec returns
RepeatReturn ==
    /\ pc = "loop"
    /\ i >= N
    /\ wg = 0
    /\ ret' = Return(Slice(results), mergeErrs(errs))
    /\ pc' = "defers"
    /\ UNCHANGED <<cacheVars, callerVars, query, N, db, stmt, deferred, i, wg,
                   iterPc, qs, dests, work, results, errs, prepares, prepareErr, closes,
                   paramsCalls, driverLog,
                   callVars, envVars>>

\* the deferred stmt.Close() runs, if there is one, and Exec returns
RunDefers ==
    /\ pc = "defers"
    /\ IF deferred
       THEN stmt' = "closed" /\ closes' = closes + 1
       ELSE UNCHANGED <<stmt, closes>>
    /\ pc' = "returned"
    /\ UNCHANGED <<cacheVars, callerVars, query, N, db, deferred, i, wg,
                   iterPc, qs, dests, work, results, errs, ret, prepares, prepareErr,
                   paramsCalls, driverLog,
                   callVars, envVars>>

Callers == 1..NumCallers

IdleCaller == [pc |-> "idle", d |-> 0, conn |-> <<>>, db |-> 0]

CallersInit ==
    /\ callers = [c \in Callers |-> IdleCaller]
    /\ fatal = FALSE

NoArg == [fn |-> "none"]

NoOut == [done |-> FALSE]

\* no call under study
CallIdle ==
    /\ arg = NoArg
    /\ out = NoOut

\* `var Log Logger` starts nil, nothing is logged and the table is empty
EnvInit ==
    /\ Log = FALSE
    /\ logs = <<>>
    /\ table = <<>>

Init ==
    /\ CacheInit
    /\ databases = [d \in DbIds |-> NewDatabase(TestConn)]
    /\ CallersInit
    /\ RepeatInit
    /\ CallIdle
    /\ EnvInit

Next ==
    \/ RepeatOpen
    \/ Prepare
    \/ \E k \in Idx : IterParams(k)
    \/ \E k \in Idx : IterExec(k)
    \/ \E k \in Idx : IterStore(k)
    \/ RepeatReturn
    \/ RunDefers

Spec == Init /\ [][Next]_vars

\* ------------------------------------------------------------------------
\* Properties of Repeat.Exec
\* ------------------------------------------------------------------------
PrepareSucceeded == prepares = 1 /\ prepareErr = Nil

PrepareHasFailed == prepares = 1 /\ prepareErr # Nil

ExecReturned == pc = "returned"

\* the Result Exec returned for index k
Returned(k) == ret.results.elems[k][1]

\* the executions of the statement that used the arguments of index k
ExecutionsOf(k) ==
    {j \in DOMAIN driverLog : driverLog[j].args = ParamsFn(k).args}

\* r is what the driver's answer looks like in a Result
Reflects(r, reply) ==
    /\ r.Err = reply.err
    /\ (query.insert /\ reply.err = Nil) => r.LastInsertId.ID = reply.key
    /\ (~query.insert /\ reply.err = Nil) => r.RowsReturned = reply.rows

\* C1: when the prepare succeeded, Exec returns exactly N results, none of
\* them nil, and the result at index k is the outcome of the execution that
\* used the arguments ParamsFn(k) returned.
C1_ResultsFollowIndex ==
    (ExecReturned /\ PrepareSucceeded) =>
        /\ ~ret.results.nil
        /\ DOMAIN ret.results.elems = 0..(N - 1)
        /\ \A k \in 0..(N - 1) :
              /\ ret.results.elems[k] # <<>>
              /\ \E j \in ExecutionsOf(k) :
                    Reflects(Returned(k), driverLog[j].reply)

C1_Witness ==
    /\ ExecReturned
    /\ PrepareSucceeded
    /\ N >= 2
    /\ Returned(0).Err # Nil
    /\ Returned(1).Err = Nil
    /\ query.insert
    /\ Returned(1).LastInsertId.ID = Int64Key(7)

\* the indexes whose returned Result carries an error
Failed == {k \in 0..(N - 1) : Returned(k).Err # Nil}

\* C2: the combined error is non-nil exactly when some iteration's Result
\* has a non-nil Err, whatever the text of that error.
C2_CombinedErrIffSomeFailed ==
    (ExecReturned /\ PrepareSucceeded) => ((ret.err # Nil) <=> (Failed # {}))

\* the texts of the failed iterations from index k on, joined by newlines
RECURSIVE JoinFailedFrom(_)
JoinFailedFrom(k) ==
    IF k >= N THEN <<>>
    ELSE IF k \notin Failed THEN JoinFailedFrom(k + 1)
    ELSE IF \E j \in Failed : j > k
         THEN ErrorText(Returned(k).Err) \o <<NL>> \o JoinFailedFrom(k + 1)
         ELSE ErrorText(Returned(k).Err)

\* C3: the results have length N, and when iterations fail the combined
\* error's text is the failed iterations' texts, one per line without a
\* trailing newline; with one failed iteration j it is j's text.
C3_CombinedTextIsFailedLines ==
    (ExecReturned /\ PrepareSucceeded /\ Failed # {}) =>
        /\ DOMAIN ret.results.elems = 0..(N - 1)
        /\ ret.err # Nil
        /\ ErrorText(ret.err) = JoinFailedFrom(0)
        /\ \A j \in Failed :
              Failed = {j} => ErrorText(ret.err) = ErrorText(Returned(j).Err)

\* C4: once the prepare has succeeded every index has ParamsFn called and
\* its statement executed exactly once, whatever the other iterations did.
C4_EveryIndexRunsOnce ==
    /\ \A k \in Idx : paramsCalls[k] <= 1 /\ Cardinality(ExecutionsOf(k)) <= 1
    /\ (ExecReturned /\ PrepareSucceeded) =>
          \A k \in Idx :
              paramsCalls[k] = 1 /\ Cardinality(ExecutionsOf(k)) = 1

C4_Witness ==
    /\ ExecReturned
    /\ PrepareSucceeded
    /\ N >= 3
    /\ Returned(0).Err # Nil
    /\ Returned(1).Err = Nil
    /\ paramsCalls[2] = 1

\* C5: one prepare, before any iteration; after a successful prepare one
\* Close, after every iteration and before Exec returns; no execution on a
\* closed statement; no Close after a failed prepare.
C5_PrepareOnceCloseOnce ==
    /\ prepares <= 1
    /\ closes <= 1
    /\ (\E k \in Idx : iterPc[k] # "idle") => PrepareSucceeded
    /\ \A j \in DOMAIN driverLog : driverLog[j].stmt = "open"
    /\ closes = 1 => \A k \in Idx : iterPc[k] = "done"
    /\ ExecReturned =>
          /\ prepares = 1
          /\ closes = (IF prepareErr = Nil THEN 1 ELSE 0)

C5_Witness ==
    /\ ExecReturned
    /\ closes = 1
    /\ stmt = "closed"
    /\ Len(driverLog) >= 2

\* C6: after a failed prepare Exec returns that error with nil results,
\* ParamsFn is never called and nothing is executed.
C6_PrepareFailureReturnsAtOnce ==
    PrepareHasFailed =>
        /\ \A k \in Idx : paramsCalls[k] = 0 /\ iterPc[k] = "idle"
        /\ driverLog = <<>>
        /\ pc \in {"defers", "returned"}
        /\ ret.returned
        /\ ret.results.nil
        /\ ret.err = prepareErr

C6_Witness == ExecReturned /\ PrepareHasFailed /\ N >= 2

\* C7 as claimed: with N = 0 Exec returns no results and a nil error and
\* executes nothing, whether or not the statement can be prepared.
C7_ZeroIterationsNilError ==
    (ExecReturned /\ N = 0) =>
        /\ Len(ret.results.elems) = 0
        /\ ret.err = Nil
        /\ driverLog = <<>>

\* C7: with N = 0 Exec executes no iteration and returns no results; the
\* error it returns is nil when the prepare succeeded (the results are then
\* an empty, non-nil list) and the prepare error when it failed.
C7_ZeroIterations ==
    (ExecReturned /\ N = 0) =>
        /\ driverLog = <<>>
        /\ Len(ret.results.elems) = 0
        /\ ret.err = prepareErr
        /\ prepareErr = Nil => ~ret.results.nil

C7_Witness ==
    ExecReturned /\ N = 0 /\ prepares = 1 /\ ret.err = Nil /\ ~ret.results.nil

\* an iteration that has started and not yet stored its result
InFlight(k) == iterPc[k] \in {"params", "executed"}

RepeatIdle ==
    /\ N = 0
    /\ query = Query(1, SelectSQL, <<>>)
    /\ pc = "idle"
    /\ db = 0
    /\ stmt = "none"
    /\ deferred = FALSE
    /\ i = 0
    /\ wg = 0
    /\ iterPc = <<>>
    /\ qs = <<>>
    /\ dests = <<>>
    /\ work = <<>>
    /\ results = <<>>
    /\ errs = <<>>
    /\ ret = NoReturn
    /\ prepares = 0
    /\ prepareErr = Nil
    /\ closes = 0
    /\ paramsCalls = <<>>
    /\ driverLog = <<>>

\* a caller (Ping, Stats, execDB, Repeat.Exec) runs
\* open(db.ConnectionString()) on Database d, start to end
Open(d) ==
    /\ LET conn == ConnectionString(databases[d])
           o == open(openDBs, handles, sqlDriver, conn)
       IN  /\ Len(o.handles) <= MaxHandles
           /\ databases' =
                [databases EXCEPT ![d] = CachedConnectionString(@)]
           /\ openDBs' = o.openDBs
           /\ handles' = o.handles
           /\ sqlDriver' = o.sqlDriver
           /\ lastOp' = [op |-> "open", conn |-> conn, db |-> o.db]
    /\ UNCHANGED <<callerVars, repeatVars,
                   callVars, envVars>>

\* Shutdown()
Shutdown ==
    /\ handles' = ShutdownHandles(openDBs, handles)
    /\ lastOp' = [op |-> "Shutdown", conn |-> <<>>, db |-> 0]
    /\ UNCHANGED <<openDBs, sqlDriver, databases, callerVars, repeatVars,
                   callVars, envVars>>

\* Reset(): Shutdown(); sqlDriver = ""; openDBs = make(map[string]*sqlx.DB)
Reset ==
    /\ handles' = ShutdownHandles(openDBs, handles)
    /\ sqlDriver' = ""
    /\ openDBs' = <<>>
    /\ lastOp' = [op |-> "Reset", conn |-> <<>>, db |-> 0]
    /\ UNCHANGED <<databases, callerVars, repeatVars,
                   callVars, envVars>>

CacheSpecInit ==
    /\ CacheInit
    /\ databases \in [DbIds -> {NewDatabase(c) : c \in Connections}]
    /\ CallersInit
    /\ RepeatIdle
    /\ CallIdle
    /\ EnvInit

CacheNext ==
    \/ \E d \in DbIds : Open(d)
    \/ Shutdown
    \/ Reset

SpecCache == CacheSpecInit /\ [][CacheNext]_vars

\* ------------------------------------------------------------------------
\* The connection cache under concurrent calls of open
\* ------------------------------------------------------------------------
\* goroutine c enters open(db.ConnectionString()) for Database d
CallOpen(c, d) ==
    /\ ~fatal
    /\ callers[c].pc = "idle"
    /\ callers' = [callers EXCEPT ![c] =
          [pc |-> "lookup", d |-> d,
           conn |-> ConnectionString(databases[d]), db |-> 0]]
    /\ databases' = [databases EXCEPT ![d] = CachedConnectionString(@)]
    /\ UNCHANGED <<openDBs, sqlDriver, handles, lastOp, fatal, repeatVars,
                   callVars, envVars>>

\* `if db, ok := openDBs[conn]; ok { return db }`
OpenLookup(c) ==
    /\ ~fatal
    /\ callers[c].pc = "lookup"
    /\ IF Cached(openDBs, callers[c].conn)
       THEN /\ callers' = [callers EXCEPT ![c].pc = "done",
                                          ![c].db = openDBs[callers[c].conn]]
            /\ lastOp' = [op |-> "open", conn |-> callers[c].conn,
                          db |-> openDBs[callers[c].conn]]
       ELSE /\ callers' = [callers EXCEPT ![c].pc = "create"]
            /\ UNCHANGED lastOp
    /\ UNCHANGED <<openDBs, sqlDriver, handles, databases, fatal,
                   repeatVars,
                   callVars, envVars>>

\* `db, err := sqlx.Open(getDriver(), conn)`
OpenCreate(c) ==
    /\ ~fatal
    /\ callers[c].pc = "create"
    /\ Len(handles) < MaxHandles
    /\ sqlDriver' = getDriver(sqlDriver)
    /\ handles' = Append(handles, NewHandle(callers[c].conn))
    /\ callers' = [callers EXCEPT ![c].pc = "store",
                                  ![c].db = Len(handles) + 1]
    /\ UNCHANGED <<openDBs, databases, lastOp, fatal, repeatVars,
                   callVars, envVars>>

\* `openDBs[conn] = db; return db`
OpenStore(c) ==
    /\ ~fatal
    /\ callers[c].pc = "store"
    /\ openDBs' = Store(openDBs, callers[c].conn, callers[c].db)
    /\ callers' = [callers EXCEPT ![c].pc = "done"]
    /\ lastOp' = [op |-> "open", conn |-> callers[c].conn,
                  db |-> callers[c].db]
    /\ UNCHANGED <<sqlDriver, handles, databases, fatal, repeatVars,
                   callVars, envVars>>

\* the map is written while another goroutine reads or writes it: the
\* runtime may detect it and stop the process
OpenStoreFatal(c) ==
    /\ ~fatal
    /\ callers[c].pc = "store"
    /\ \E o \in Callers \ {c} : callers[o].pc \in {"lookup", "store"}
    /\ fatal' = TRUE
    /\ UNCHANGED <<cacheVars, callers, repeatVars,
                   callVars, envVars>>

\* the caller goes on and may call open again
CallerReturns(c) ==
    /\ ~fatal
    /\ callers[c].pc = "done"
    /\ callers' = [callers EXCEPT ![c] = IdleCaller]
    /\ UNCHANGED <<cacheVars, fatal, repeatVars,
                   callVars, envVars>>

OpenNext ==
    \/ \E c \in Callers : \E d \in DbIds : CallOpen(c, d)
    \/ \E c \in Callers : OpenLookup(c)
    \/ \E c \in Callers : OpenCreate(c)
    \/ \E c \in Callers : OpenStore(c)
    \/ \E c \in Callers : OpenStoreFatal(c)
    \/ \E c \in Callers : CallerReturns(c)

SpecOpen == CacheSpecInit /\ [][OpenNext]_vars

\* ------------------------------------------------------------------------
\* Properties of the connection cache
\* ------------------------------------------------------------------------
\* the handles created for a connection string and not closed
LiveHandles(conn) ==
    {h \in DOMAIN handles : handles[h].conn = conn /\ ~handles[h].closed}

\* C9: however concurrent first opens of one connection string interleave,
\* one handle is created for the string and every caller gets that handle;
\* there are never two live handles for one string.
C9_OneHandlePerString ==
    /\ \A h \in DOMAIN handles : Cardinality(LiveHandles(handles[h].conn)) <= 1
    /\ \A c \in Callers : \A o \in Callers :
          (callers[c].pc = "done" /\ callers[o].pc = "done"
             /\ callers[c].conn = callers[o].conn)
            => callers[c].db = callers[o].db

\* one step of the cache keeps the lifecycle of its handles
CacheStep ==
    /\ Len(handles') > Len(handles) =>
          /\ lastOp'.op = "open"
          /\ lastOp'.conn \notin DOMAIN openDBs
          /\ Len(handles') = Len(handles) + 1
          /\ lastOp'.db = Len(handles')
          /\ handles'[lastOp'.db].conn = lastOp'.conn
    /\ (lastOp'.op = "open" /\ lastOp'.conn \in DOMAIN openDBs) =>
          /\ lastOp'.db = openDBs[lastOp'.conn]
          /\ handles' = handles
    /\ lastOp'.op = "open" =>
          /\ lastOp'.conn \in DOMAIN openDBs'
          /\ openDBs'[lastOp'.conn] = lastOp'.db
    /\ lastOp'.op # "Reset" =>
          \A conn \in DOMAIN openDBs :
              conn \in DOMAIN openDBs' /\ openDBs'[conn] = openDBs[conn]
    /\ \A h \in DOMAIN handles :
          (handles'[h].closed /\ ~handles[h].closed)
            => lastOp'.op \in {"Reset", "Shutdown"}

\* C10: a handle is created only by the first open of its connection
\* string, every later open of the string (from any Database object that
\* renders to it) returns that handle until Reset, distinct strings have
\* distinct handles, and only Reset and Shutdown close a cached handle.
C10_CacheLifecycle ==
    /\ [][CacheStep]_vars
    /\ [](\A c1 \in DOMAIN openDBs : \A c2 \in DOMAIN openDBs :
             /\ handles[openDBs[c1]].conn = c1
             /\ c1 # c2 => openDBs[c1] # openDBs[c2])

C10_Witness ==
    /\ lastOp.op = "open"
    /\ databases[1].connString # <<>>
    /\ databases[1].connString = databases[2].connString
    /\ Cardinality(DOMAIN openDBs) = 1
    /\ Len(handles) = 2
    /\ handles[1].closed
    /\ ~handles[2].closed
    /\ lastOp.db = 2

\* ------------------------------------------------------------------------
\* The builder and the other pure functions, each applied once to
\* arguments drawn at the start.
\* ------------------------------------------------------------------------
\* longest name handed to goToSQLName (the three named examples apart)
MaxNameLen == 3

NameChars == {"A", "B", "c", "_"}

TransactionSource ==
    <<"T", "r", "a", "n", "s", "a", "c", "t", "i", "o", "n",
      "S", "o", "u", "r", "c", "e">>

Names ==
    SeqsUpTo(NameChars, MaxNameLen)
        \cup {TransactionSource, <<"N", "a", "m", "e">>, <<"I", "D">>}

SchemaNames == {"paper"}

\* the ids and counts a meta can hold
Metas ==
    [LastInsertId : {IntKey(0), Int64Key(0), Int64Key(7), IntKey(7), NilKey},
     RowsAffected : {-1, 0, 1}]

BuildArgs ==
    { [fn |-> "goToSQLName", name |-> n] : n \in Names }
      \cup { [fn |-> "generateInsertQuery", obj |-> o, schema |-> s,
              withPK |-> w] :
                o \in Objects \cup NilKeyObjects, s \in SchemaNames,
                w \in BOOLEAN }
      \cup { [fn |-> "fields", obj |-> o] : o \in Objects \cup NilKeyObjects }
      \cup { [fn |-> "setMeta", meta |-> m] : m \in Metas }

BuildInit ==
    /\ CacheInit
    /\ databases = [d \in DbIds |-> NewDatabase(TestConn)]
    /\ CallersInit
    /\ RepeatIdle
    /\ arg \in BuildArgs
    /\ out = NoOut
    /\ EnvInit

CallGoToSQLName ==
    /\ arg.fn = "goToSQLName"
    /\ ~out.done
    /\ out' = [done |-> TRUE, name |-> goToSQLName(arg.name)]
    /\ UNCHANGED <<arg, cacheVars, callerVars, repeatVars, envVars>>

CallGenerateInsertQuery ==
    /\ arg.fn = "generateInsertQuery"
    /\ ~out.done
    /\ LET made == generateInsertQuery(1, arg.schema, arg.obj, arg.withPK)
       IN  out' = [done |-> TRUE, panicked |-> made.panicked,
                   query |-> made.query]
    /\ UNCHANGED <<arg, cacheVars, callerVars, repeatVars, envVars>>

\* fields(obj): the list, or a panic
CallFields ==
    /\ arg.fn = "fields"
    /\ ~out.done
    /\ out' = IF fieldsPanics(arg.obj)
              THEN [done |-> TRUE, panicked |-> TRUE, fields |-> <<>>]
              ELSE [done |-> TRUE, panicked |-> FALSE,
                    fields |-> fields(arg.obj)]
    /\ UNCHANGED <<arg, cacheVars, callerVars, repeatVars, envVars>>

CallSetMeta ==
    /\ arg.fn = "setMeta"
    /\ ~out.done
    /\ out' = [done |-> TRUE, result |-> setMeta(NewResult, arg.meta)]
    /\ UNCHANGED <<arg, cacheVars, callerVars, repeatVars, envVars>>

BuildNext ==
    \/ CallGoToSQLName
    \/ CallGenerateInsertQuery
    \/ CallFields
    \/ CallSetMeta

SpecBuild == BuildInit /\ [][BuildNext]_vars

\* ------------------------------------------------------------------------
\* Properties of the builder.  A built statement is read back piece by
\* piece: the table between "INSERT INTO " and " (", the column lines up to
\* the VALUES line, the placeholder lines up to the closing line and the
\* column of the RETURNING line.
\* ------------------------------------------------------------------------
Built ==
    /\ arg.fn = "generateInsertQuery"
    /\ out.done
    /\ ~out.panicked

\* the record the builder was given, behind the pointer if there is one
BuiltStruct == IF arg.obj.kind = "ptr" THEN arg.obj.elem ELSE arg.obj

\* first position of the piece in the text
PosOf(text, piece) ==
    CHOOSE k \in DOMAIN text :
        text[k] = piece /\ \A j \in 1..(k - 1) : text[j] # piece

\* the pieces strictly between the first `from` and the first `to`
Between(text, from, to) ==
    SubSeq(text, PosOf(text, from) + 1, PosOf(text, to) - 1)

StripComma(item) ==
    IF item # <<>> /\ item[Len(item)] = ","
    THEN SubSeq(item, 1, Len(item) - 1) ELSE item

\* the items of a section of lines, each line opened by `lead` and closed
\* by an optional comma
RECURSIVE SplitItems(_, _)
SplitItems(section, lead) ==
    IF section = <<>> THEN <<>>
    ELSE LET rest == Tail(section)
             nxt  == IF \E k \in DOMAIN rest : rest[k] = lead
                     THEN PosOf(rest, lead) ELSE Len(rest) + 1
         IN  <<StripComma(SubSeq(rest, 1, nxt - 1))>>
                 \o SplitItems(SubSeq(rest, nxt, Len(rest)), lead)

SqlTable == Between(out.query.SQL, "INSERT INTO ", " (")

SqlColumns ==
    SplitItems(Between(out.query.SQL, " (", "\n)\nVALUES ("), "\n\t")

SqlPlaceholders ==
    SplitItems(Between(out.query.SQL, "\n)\nVALUES (", "\n)\n"), "\n\t$")

SqlReturning == Between(out.query.SQL, "RETURNING ", " as LastInsertId;")

\* the statement has the shape the readers above rely on
WellFormedSql ==
    LET sql == out.query.SQL
    IN  /\ Len(sql) >= 1 /\ sql[1] = "INSERT INTO "
        /\ \A piece \in {" (", "\n)\nVALUES (", "\n)\n", "RETURNING ",
                         " as LastInsertId;"} :
              Cardinality({k \in DOMAIN sql : sql[k] = piece}) = 1
        /\ PosOf(sql, " (") < PosOf(sql, "\n)\nVALUES (")
        /\ PosOf(sql, "\n)\nVALUES (") < PosOf(sql, "\n)\n")
        /\ PosOf(sql, "\n)\n") + 1 = PosOf(sql, "RETURNING ")
        /\ sql[Len(sql)] = " as LastInsertId;"
        /\ \A k \in DOMAIN sql :
              sql[k] = "," =>
                  k < Len(sql) /\ sql[k + 1] \in {"\n\t", "\n\t$"}

\* the column the field declared as fd goes by: its `db` tag, else its
\* name lower-cased with underscores (computed by the builder's rule)
ColumnOf(fd) == IF fd.db # <<>> THEN fd.db ELSE goToSQLName(fd.Name)

\* position in the record of the field whose value is v
FieldOfValue(v) == CHOOSE k \in DOMAIN BuiltStruct.fields :
                       BuiltStruct.fields[k].Value = v

\* C11: the k-th column, the k-th placeholder ($k, numbered 1..n without
\* gaps) and the k-th argument of a built insert refer to the same field of
\* the record, and there are as many columns as placeholders and arguments.
C11_ColumnsPlaceholdersArgsAlign ==
    Built =>
        /\ WellFormedSql
        /\ Len(SqlColumns) = Len(out.query.Args)
        /\ Len(SqlPlaceholders) = Len(out.query.Args)
        /\ \A k \in DOMAIN out.query.Args :
              /\ SqlPlaceholders[k] = FormatInt(k)
              /\ \E j \in DOMAIN BuiltStruct.fields :
                    /\ BuiltStruct.fields[j].Value = out.query.Args[k]
                    /\ SqlColumns[k] = ColumnOf(BuiltStruct.fields[j])

C11_Witness ==
    /\ Built
    /\ ~arg.withPK
    /\ Len(BuiltStruct.fields) = 3
    /\ ParseBool(BuiltStruct.fields[2].db_pk)
    /\ ~ParseBool(BuiltStruct.fields[1].db_pk)
    /\ ~ParseBool(BuiltStruct.fields[3].db_pk)
    /\ Len(out.query.Args) = 2
    /\ SqlPlaceholders = <<FormatInt(1), FormatInt(2)>>
    /\ out.query.Args = <<11, 13>>

\* positions of the fields marked primary
PrimaryPositions ==
    {k \in DOMAIN BuiltStruct.fields :
        BuiltStruct.fields[k].db_pk \in {"1", "t", "T", "TRUE", "true", "True"}}

\* the positions an insert lists, in declared order
RECURSIVE ListedUpTo(_, _)
ListedUpTo(n, listed) ==
    IF n = 0 THEN <<>>
    ELSE ListedUpTo(n - 1, listed) \o (IF n \in listed THEN <<n>> ELSE <<>>)

\* C12: for a record with a primary-marked field, wherever it stands, its
\* column and value are listed iff withPK; every other field is listed in
\* declared order either way, and RETURNING names the primary column.
C12_PrimaryListedIffWithPK ==
    (Built /\ Cardinality(PrimaryPositions) = 1) =>
        LET p      == CHOOSE k \in PrimaryPositions : TRUE
            all    == DOMAIN BuiltStruct.fields
            listed == ListedUpTo(Len(BuiltStruct.fields),
                                 IF arg.withPK THEN all ELSE all \ {p})
        IN  /\ SqlColumns =
                  [k \in DOMAIN listed |-> ColumnOf(BuiltStruct.fields[listed[k]])]
            /\ out.query.Args =
                  [k \in DOMAIN listed |-> BuiltStruct.fields[listed[k]].Value]
            /\ SqlReturning = ColumnOf(BuiltStruct.fields[p])

C12_Witness ==
    /\ Built
    /\ ~arg.withPK
    /\ Len(BuiltStruct.fields) = 3
    /\ PrimaryPositions = {3}
    /\ Len(SqlColumns) = 2
    /\ out.query.Args = <<11, 12>>
    /\ SqlReturning = ColumnOf(BuiltStruct.fields[3])

\* upper-case letters of name[2..k]: the underscores due before name[k]
\* lands in the result
InnerUppers(name, k) == Cardinality({j \in 2..k : IsUpper(name[j])})

\* C13: goToSQLName lower-cases its input and puts exactly one underscore
\* before every upper-case letter but a first one, never a leading
\* underscore; a name without upper-case letters comes back unchanged (so
\* the result converts to itself), TransactionSource gives
\* transaction_source, Name gives name and ID gives i_d.
C13_SnakeCase ==
    (arg.fn = "goToSQLName" /\ out.done) =>
        LET name == arg.name
            s    == out.name
        IN  /\ Len(s) = Len(name) + InnerUppers(name, Len(name))
            /\ \A k \in DOMAIN name :
                  /\ s[k + InnerUppers(name, k)] = ToLower(name[k])
                  /\ (k > 1 /\ IsUpper(name[k]))
                        => s[k + InnerUppers(name, k) - 1] = "_"
            /\ (name # <<>> /\ name[1] # "_") => s[1] # "_"
            /\ (\A k \in DOMAIN name : ~IsUpper(name[k])) => s = name
            /\ \A k \in DOMAIN s : ~IsUpper(s[k])
            /\ name = TransactionSource =>
                  s = <<"t", "r", "a", "n", "s", "a", "c", "t", "i", "o", "n",
                        "_", "s", "o", "u", "r", "c", "e">>
            /\ name = <<"N", "a", "m", "e">> => s = <<"n", "a", "m", "e">>
            /\ name = <<"I", "D">> => s = <<"i", "_", "d">>

C13_Witness ==
    /\ arg.fn = "goToSQLName"
    /\ out.done
    /\ arg.name = TransactionSource
    /\ Len(out.name) = Len(TransactionSource) + 1
    /\ out.name[12] = "_"

\* the field's name lower-cased with underscores, written out position by
\* position
Converted(name) ==
    [p \in 1..(Len(name) + InnerUppers(name, Len(name))) |->
        IF \E k \in DOMAIN name : k + InnerUppers(name, k) = p
        THEN ToLower(name[CHOOSE k \in DOMAIN name : k + InnerUppers(name, k) = p])
        ELSE "_"]

\* C14: every column of a built insert, the RETURNING column included, is
\* the field's `db` tag when it has one and the converted field name
\* otherwise; the table is the schema, a dot and the converted type name,
\* and a pointer to a record goes by the record's type name.
C14_ColumnAndTableNames ==
    Built =>
        /\ \A k \in DOMAIN out.query.Args :
              LET fd == BuiltStruct.fields[FieldOfValue(out.query.Args[k])]
              IN  SqlColumns[k] =
                      IF fd.db # <<>> THEN fd.db ELSE Converted(fd.Name)
        /\ \E p \in PrimaryPositions :
              LET fd == BuiltStruct.fields[p]
              IN  SqlReturning =
                      IF fd.db # <<>> THEN fd.db ELSE Converted(fd.Name)
        /\ SqlTable = <<arg.schema, ".">> \o Converted(BuiltStruct.type)

C14_Witness ==
    /\ Built
    /\ arg.obj.kind = "ptr"
    /\ arg.obj.elem.type = TestTableObjType
    /\ Len(BuiltStruct.fields) = 2
    /\ BuiltStruct.fields[1].db # <<>>
    /\ BuiltStruct.fields[2].db = <<>>
    /\ PrimaryPositions = {2}
    /\ arg.withPK
    /\ SqlColumns = <<DbTags[1], <<"t", "i", "t", "l", "e">> >>
    /\ SqlTable = <<"paper", ".", "t", "e", "s", "t", "_", "t", "a", "b", "l", "e",
                    "_", "o", "b", "j">>

\* C15: the builder returns an INSERT statement for every struct record,
\* also for one none of whose fields is marked primary; it never fails
\* while building the RETURNING clause.
C15_InsertSQLNeverFails ==
    (arg.fn = "generateInsertQuery" /\ out.done) =>
        /\ ~out.panicked
        /\ WellFormedSql

\* C18: after setMeta LastInsertId.Err is set exactly when the id is the
\* zero sentinel, be it the untouched default or a zero of the driver's
\* integer type int64, and RowsAffected.Err exactly when the count is -1;
\* otherwise both stay nil, and the id and the count are copied unchanged.
C18_SentinelsSetFieldErrors ==
    (arg.fn = "setMeta" /\ out.done) =>
        LET m == arg.meta
            r == out.result
            zero == m.LastInsertId.type \in {"int", "int64"}
                        /\ m.LastInsertId.val = 0
        IN  /\ r.LastInsertId.ID = m.LastInsertId
            /\ r.RowsAffected.Count = m.RowsAffected
            /\ (r.LastInsertId.Err # Nil) <=> zero
            /\ (r.RowsAffected.Err # Nil) <=> (m.RowsAffected = -1)
            /\ r.Err = Nil

\* ------------------------------------------------------------------------
\* One query run through Exec, ExecNonQuery, ExecSingle or ExecAll
\* (execDB: open the handle, run the command, record its error), next to
\* the Repeat of the first specification.
\* ------------------------------------------------------------------------
NotSupported == NewError(<<"LastInsertId is not supported by this driver">>)

\* what db.Exec and the sql.Result it returns can answer: the statement's
\* error, then for the id and for the count either a value or an error
ExecReplies ==
    [err : {Nil} \cup {NewError(m) : m \in Msgs},
     idErr : {Nil}, id : {0}, countErr : {Nil}, count : {0}]
      \cup [err : {Nil}, idErr : {Nil, NotSupported}, id : {0, 7},
            countErr : {Nil, NewError(<<"c">>)}, count : {0, 1}]

\* the destinations a fetch is given: a pointer to a slice that holds len
\* elements, a slice passed by value, a pointer to a struct, nil
Dests ==
    {[kind |-> k, len |-> n] : k \in {"ptrSlice", "slice"}, n \in 0..1}
      \cup {[kind |-> k, len |-> 0] : k \in {"ptrStruct", "nil"}}

\* what db.Select can answer for dest: the rows it appended before it
\* returned, and its error; only a pointer to a slice can take rows
AllReplies(dest) ==
    IF dest.kind = "ptrSlice"
    THEN [err : {Nil} \cup {NewError(m) : m \in Msgs}, rows : 0..2]
    ELSE [err : {NewError(m) : m \in Msgs \ {<<>>}}, rows : {0}]

\* what db.Get(dest) can answer
SingleReplies == {Nil} \cup {NewError(m) : m \in Msgs}

\* reflect.Indirect(reflect.ValueOf(dest)): the length when its kind is
\* Slice, -1 for every other kind
Indirect(dest) ==
    IF dest.kind \in {"ptrSlice", "slice"} THEN dest.len ELSE -1

\* the nonQuery branch of exec's cmd: the Result, and the error returned
execNonQueryCmd(r, reply) ==
    CASE reply.err # Nil      -> [r |-> r, err |-> reply.err]
      [] reply.idErr # Nil    -> [r |-> r, err |-> reply.idErr]
      [] reply.countErr # Nil -> [r |-> r, err |-> reply.countErr]
      [] OTHER ->
           [r |-> setMeta(r, [LastInsertId |-> Int64Key(reply.id),
                              RowsAffected |-> reply.count]),
            err |-> Nil]

\* a Get branch that drops the key the statement returned
execGetCmdNoKey(r, reply) ==
    IF reply.err # Nil
    THEN [r |-> r, err |-> reply.err]
    ELSE [r |-> setMeta(r, newMeta), err |-> Nil]

\* the other branch: db.Get(&meta, ...), setMeta only without an error
execGetCmd(r, reply) ==
    IF reply.err # Nil
    THEN [r |-> r, err |-> reply.err]
    ELSE [r |-> setMeta(r, [newMeta EXCEPT !.LastInsertId = reply.key]),
          err |-> Nil]

\* the cmd of exec on a new Result: the Result, and the error returned
execCmd(nonQuery, reply) ==
    IF nonQuery THEN execNonQueryCmd(NewResult, reply)
    ELSE execGetCmd(NewResult, reply)

\* exec(q, nonQuery) once the handle is open
exec(nonQuery, reply) ==
    execCommand(execCmd(nonQuery, reply).r, execCmd(nonQuery, reply).err)

\* ExecSingle's command counting a row whatever db.Get said
singleCmdAlways(r, err) == [r EXCEPT !.RowsReturned = 1]

\* ExecSingle's command: one row returned when db.Get gave no error
singleCmd(r, err) == IF err = Nil THEN [r EXCEPT !.RowsReturned = 1] ELSE r

\* db.Select on dest: the rows are appended to the slice it points to
Select(dest, reply) ==
    IF dest.kind = "ptrSlice" THEN [dest EXCEPT !.len = @ + reply.rows]
    ELSE dest

UpdateSQL == "UPDATE paper.book SET Title = $1 WHERE book_id = $2"

\* the calls of the model: the method, the Query it is called on and, for
\* a fetch, the destination
ExecArgs ==
    {[fn |-> "Exec", q |-> Query(1, InsertSQL, <<1>>)],
     [fn |-> "ExecNonQuery", q |-> Query(1, UpdateSQL, <<1, 2>>)]}
      \cup {[fn |-> f, q |-> Query(1, SelectSQL, <<6>>), dest |-> dest] :
              f \in {"ExecSingle", "ExecAll"}, dest \in Dests}

\* execDB: open(q.Database.ConnectionString()) for the command
execDBOpen(d) ==
    LET conn == ConnectionString(databases[d])
        o == open(openDBs, handles, sqlDriver, conn)
    IN  /\ databases' = [databases EXCEPT ![d] = CachedConnectionString(@)]
        /\ openDBs' = o.openDBs
        /\ handles' = o.handles
        /\ sqlDriver' = o.sqlDriver
        /\ lastOp' = [op |-> "open", conn |-> conn, db |-> o.db]

\* Query.Exec
QueryExec ==
    /\ arg.fn = "Exec"
    /\ ~out.done
    /\ execDBOpen(arg.q.Database)
    /\ \E reply \in GetReplies :
          /\ out' = [done |-> TRUE, reply |-> reply,
                     result |-> exec(FALSE, reply)]
          /\ logs' = logged(logs, arg.q, execCmd(FALSE, reply).r,
                            execCmd(FALSE, reply).err, <<>>)
    /\ UNCHANGED <<arg, callerVars, repeatVars, Log, table>>

\* Query.ExecNonQuery
QueryExecNonQuery ==
    /\ arg.fn = "ExecNonQuery"
    /\ ~out.done
    /\ execDBOpen(arg.q.Database)
    /\ \E reply \in ExecReplies :
          /\ out' = [done |-> TRUE, reply |-> reply,
                     result |-> exec(TRUE, reply)]
          /\ logs' = logged(logs, arg.q, execCmd(TRUE, reply).r,
                            execCmd(TRUE, reply).err, <<>>)
    /\ UNCHANGED <<arg, callerVars, repeatVars, Log, table>>

\* Query.ExecSingle(dest)
QueryExecSingle ==
    /\ arg.fn = "ExecSingle"
    /\ ~out.done
    /\ execDBOpen(arg.q.Database)
    /\ \E err \in SingleReplies :
          /\ out' = [done |-> TRUE, reply |-> [err |-> err], dest |-> arg.dest,
                     result |-> execCommand(singleCmd(NewResult, err), err)]
          /\ logs' = logged(logs, arg.q, singleCmd(NewResult, err), err, <<>>)
    /\ UNCHANGED <<arg, callerVars, repeatVars, Log, table>>

\* Query.ExecAll(dest)
QueryExecAll ==
    /\ arg.fn = "ExecAll"
    /\ ~out.done
    /\ execDBOpen(arg.q.Database)
    /\ \E reply \in AllReplies(arg.dest) :
          LET dest == Select(arg.dest, reply)
              r    == SelectCmd(NewResult, Indirect(dest))
          IN  /\ out' = [done |-> TRUE, reply |-> reply, dest |-> dest,
                         result |-> execCommand(r, reply.err)]
              /\ logs' = logged(logs, arg.q, r, reply.err, <<>>)
    /\ UNCHANGED <<arg, callerVars, repeatVars, Log, table>>

\* the values handed to the package-level functions: an int, or a slice
\* []interface{} of values
IntValue(n) == [kind |-> "int", val |-> n, elems |-> <<>>]

SliceValue(vs) == [kind |-> "slice", val |-> 0, elems |-> vs]

\* the calls Exec(sql, conn, a1..ak) and ExecNonQuery(sql, conn, a1..ak)
\* of the model, k in 0..2
PackageArgs ==
    {[fn |-> f, sql |-> UpdateSQL, conn |-> TestConn, args |-> as] :
        f \in {"papergres.Exec", "papergres.ExecNonQuery"},
        as \in {<<>>, <<IntValue(1)>>, <<IntValue(1), IntValue(2)>>}}

\* a call that spreads its variadic arguments: Query(sql, args...)
PackageQuerySpread(sql, args) == Query(0, sql, args)

\* conn.NewDatabase().Query(sql, args): the variadic parameter of Query
\* receives args, a []interface{}, as its one element.  The Database is a
\* new one that no other caller holds (number 0)
PackageQuery(sql, args) == Query(0, sql, <<SliceValue(args)>>)

\* execDB for a Query on conn.NewDatabase()
execNewDBOpen(conn) ==
    LET cs == ConnectionString(NewDatabase(conn))
        o == open(openDBs, handles, sqlDriver, cs)
    IN  /\ openDBs' = o.openDBs
        /\ handles' = o.handles
        /\ sqlDriver' = o.sqlDriver
        /\ lastOp' = [op |-> "open", conn |-> cs, db |-> o.db]
        /\ UNCHANGED databases

\* Exec(sql, conn, args...)
Exec ==
    /\ arg.fn = "papergres.Exec"
    /\ ~out.done
    /\ execNewDBOpen(arg.conn)
    /\ \E reply \in GetReplies :
          LET q == PackageQuery(arg.sql, arg.args)
          IN  /\ out' = [done |-> TRUE, reply |-> reply, q |-> q,
                         result |-> exec(FALSE, reply)]
              /\ logs' = logged(logs, q, execCmd(FALSE, reply).r,
                                execCmd(FALSE, reply).err, <<>>)
    /\ UNCHANGED <<arg, callerVars, repeatVars, Log, table>>

\* ExecNonQuery(sql, conn, args...)
ExecNonQuery ==
    /\ arg.fn = "papergres.ExecNonQuery"
    /\ ~out.done
    /\ execNewDBOpen(arg.conn)
    /\ \E reply \in ExecReplies :
          LET q == PackageQuery(arg.sql, arg.args)
          IN  /\ out' = [done |-> TRUE, reply |-> reply, q |-> q,
                         result |-> exec(TRUE, reply)]
              /\ logs' = logged(logs, q, execCmd(TRUE, reply).r,
                                execCmd(TRUE, reply).err, <<>>)
    /\ UNCHANGED <<arg, callerVars, repeatVars, Log, table>>

ExecInit ==
    \/ Init
    \/ /\ CacheInit
       /\ databases = [d \in DbIds |-> NewDatabase(TestConn)]
       /\ CallersInit
       /\ RepeatIdle
       /\ arg \in ExecArgs \cup PackageArgs
       /\ out = NoOut
       /\ EnvInit

ExecNext ==
    \/ Next
    \/ QueryExec
    \/ QueryExecNonQuery
    \/ QueryExecSingle
    \/ QueryExecAll
    \/ Exec
    \/ ExecNonQuery

SpecExec == ExecInit /\ [][ExecNext]_vars

\* a single Exec or ExecNonQuery has returned and the statement itself
\* ran without an error
Executed ==
    /\ arg.fn \in {"Exec", "ExecNonQuery"}
    /\ out.done
    /\ out.reply.err = Nil

\* C19: missing metadata is never fatal.  When the statement ran but the
\* driver gave no generated id or no affected-row count, the top-level Err
\* is nil and the absence shows only in LastInsertId.Err or
\* RowsAffected.Err, what the driver did give is recorded (the count of an
\* UPDATE run through ExecNonQuery), and a Repeat whose results have no
\* top-level error returns no combined error.
C19_MissingMetadataNotFatal ==
    /\ Executed => out.result.Err = Nil
    /\ (Executed /\ arg.fn = "ExecNonQuery") =>
          /\ (out.reply.idErr # Nil) <=> (out.result.LastInsertId.Err # Nil)
          /\ (out.reply.countErr # Nil) <=> (out.result.RowsAffected.Err # Nil)
          /\ out.reply.countErr = Nil =>
                out.result.RowsAffected.Count = out.reply.count
          /\ out.reply.idErr = Nil =>
                out.result.LastInsertId.ID = Int64Key(out.reply.id)
    /\ (ExecReturned /\ PrepareSucceeded
          /\ \A k \in 0..(N - 1) : Returned(k).Err = Nil) => ret.err = Nil

\* C20: RowsReturned is 1 after an ExecSingle without an error and 0 after
\* one with an error; after ExecAll, and after an iteration of a Repeat
\* that is not an insert, it is the length the destination collection has
\* at the return, and 0 when the destination is not a collection.
C20_RowsReturned ==
    /\ (arg.fn = "ExecSingle" /\ out.done) =>
          out.result.RowsReturned = IF out.result.Err = Nil THEN 1 ELSE 0
    /\ (arg.fn = "ExecAll" /\ out.done) =>
          out.result.RowsReturned =
              IF out.dest.kind \in {"ptrSlice", "slice"} THEN out.dest.len
              ELSE 0
    /\ \A k \in Idx :
          (~query.insert /\ iterPc[k] \notin {"idle", "params"}) =>
              work[k].RowsReturned = dests[ParamsFn(k).dest]

C20_Witness ==
    /\ arg.fn = "ExecAll"
    /\ out.done
    /\ arg.dest = [kind |-> "ptrSlice", len |-> 1]
    /\ out.reply.rows = 2
    /\ out.reply.err # Nil
    /\ out.dest.len = 3
    /\ out.result.RowsReturned = 3

\* ------------------------------------------------------------------------
\* Schema.InsertAll: the checks on objs, the insert generated from the
\* first element, and the Repeat over the elements.
\* ------------------------------------------------------------------------
\* convertToSlice: the elements of a slice, an error for any other kind
convertToSlice(v) ==
    IF ~isSlice(v)
    THEN [slice |-> <<>>, err |-> NewError(<<"value is not a slice">>)]
    ELSE [slice |-> v.elems, err |-> Nil]

\* the j-th element of a slice of Book: two fields with `db` tags, the
\* first one marked primary or not, holding values of its own
BookAt(j, pk) ==
    [kind |-> "struct", type |-> BookType,
     fields |-> [k \in 1..2 |-> StructField(k, TRUE, IF k = 1 THEN pk ELSE "",
                                             10 * j)]]

\* a slice of n Books
Books(n, pk) ==
    [kind |-> "slice", elemType |-> BookType,
     elems |-> [j \in 1..n |-> BookAt(j, pk)]]

\* what InsertAll is given: slices of 0..MaxN Books, with and without a
\* primary marker, and values that are not slices: a Book, a pointer to a
\* Book, a pointer to a slice
InsertAllObjs ==
    {Books(n, pk) : n \in 0..MaxN, pk \in {"", "true"}}
      \cup {BookAt(1, "true"),
            [kind |-> "ptr", elem |-> BookAt(1, "true")],
            [kind |-> "ptr", elem |-> Books(1, "true")]}

\* `return nil, err` that hands back an empty, non-nil results list
RejectedWithResults(err) ==
    [done |-> TRUE, panicked |-> FALSE, results |-> Slice(<<>>), err |-> err]

\* `return nil, err`
Rejected(err) ==
    [done |-> TRUE, panicked |-> FALSE, results |-> NilSlice, err |-> err]

InsertAllInit ==
    /\ CacheInit
    /\ databases = [d \in DbIds |-> NewDatabase(TestConn)]
    /\ CallersInit
    /\ RepeatIdle
    /\ arg \in {[fn |-> "InsertAll", d |-> 1, schema |-> sch, objs |-> o] :
                  sch \in SchemaNames, o \in InsertAllObjs}
    /\ out = NoOut
    /\ EnvInit

\* InsertAll up to the call of Repeat.Exec: objs that is no slice or an
\* empty slice is rejected, a record the builder panics on ends the call,
\* otherwise the generated insert becomes the Repeat's query with
\* N = len(slice)
InsertAll ==
    /\ arg.fn = "InsertAll"
    /\ ~out.done
    /\ pc = "idle"
    /\ LET c == convertToSlice(arg.objs)
           g == generateInsertQuery(arg.d, arg.schema, c.slice[1], FALSE)
           n == Len(c.slice)
       IN  IF c.err # Nil \/ n = 0 \/ g.panicked
           THEN /\ out' = IF c.err # Nil THEN Rejected(c.err)
                          ELSE IF n = 0
                               THEN Rejected(NewError(<<"empty slice">>))
                               ELSE [done |-> TRUE, panicked |-> TRUE,
                                     results |-> NilSlice, err |-> Nil]
                /\ UNCHANGED repeatVars
           ELSE /\ query' = g.query
                /\ N' = n
                /\ pc' = "start"
                /\ iterPc' = [k \in 0..(n - 1) |-> "idle"]
                /\ qs' = [k \in 0..(n - 1) |-> NoQuery]
                /\ dests' = [k \in 0..(n - 1) |-> 0]
                /\ work' = [k \in 0..(n - 1) |-> NewResult]
                /\ paramsCalls' = [k \in 0..(n - 1) |-> 0]
                /\ UNCHANGED <<out, db, stmt, deferred, i, wg, results, errs,
                               ret, prepares, prepareErr, closes, driverLog>>
    /\ UNCHANGED <<arg, cacheVars, callerVars, envVars>>

\* Repeat.Exec has returned: InsertAll returns its results and error
InsertAllReturn ==
    /\ arg.fn = "InsertAll"
    /\ ~out.done
    /\ pc = "returned"
    /\ out' = [done |-> TRUE, panicked |-> FALSE, results |-> ret.results,
               err |-> ret.err]
    /\ UNCHANGED <<arg, cacheVars, callerVars, repeatVars, envVars>>

InsertAllNext ==
    \/ InsertAll
    \/ Next
    \/ InsertAllReturn

SpecInsertAll == InsertAllInit /\ [][InsertAllNext]_vars

\* objs is a slice with elements
NonEmptySlice == isSlice(arg.objs) /\ Len(arg.objs.elems) > 0

RECURSIVE NonPrimaryValues(_, _)
NonPrimaryValues(v, n) ==
    IF n = 0 THEN <<>>
    ELSE NonPrimaryValues(v, n - 1)
            \o (IF v.fields[n].db_pk \in {"1", "t", "T", "TRUE", "true", "True"}
                THEN <<>> ELSE <<v.fields[n].Value>>)

\* once InsertAll has returned, results[k] is the outcome of an insert run
\* with the non-primary values of objs[k]
ResultsFollowObjs ==
    /\ ~out.results.nil
    /\ DOMAIN out.results.elems = 0..(Len(arg.objs.elems) - 1)
    /\ \A k \in 0..(Len(arg.objs.elems) - 1) :
          /\ out.results.elems[k] # <<>>
          /\ \E j \in DOMAIN driverLog :
                LET obj == arg.objs.elems[k + 1]
                    r   == out.results.elems[k][1]
                IN  /\ driverLog[j].args =
                          NonPrimaryValues(obj, Len(obj.fields))
                    /\ r.Err = driverLog[j].reply.err
                    /\ driverLog[j].reply.err = Nil =>
                          r.LastInsertId.ID = driverLog[j].reply.key

\* C17: InsertAll on a non-empty slice of records returns one Result per
\* element in the order of the slice: results[i] is the outcome of
\* inserting objs[i] with objs[i]'s own non-primary values, so its
\* LastInsertId.ID is the key generated for objs[i].
C17_InsertAllResultsFollowObjs ==
    (arg.fn = "InsertAll" /\ NonEmptySlice /\ out.done /\ ~PrepareHasFailed)
        => (~out.panicked /\ ResultsFollowObjs)

\* the same for the calls the builder does not panic on
InsertAllResultsFollowObjsUnlessPanic ==
    (arg.fn = "InsertAll" /\ NonEmptySlice /\ out.done /\ ~PrepareHasFailed
        /\ ~out.panicked) => ResultsFollowObjs

\* ------------------------------------------------------------------------
\* More properties of the handle cache
\* ------------------------------------------------------------------------
\* the handles the cache holds
CachedHandles == {openDBs[c] : c \in DOMAIN openDBs}

\* C24: Reset returns the package to its start-up state: every handle that
\* was cached is closed, the cache is empty and the driver name is cleared,
\* so the next open of any connection string creates a fresh handle and
\* never returns one created before the Reset.
C24_ResetStartsOver ==
    /\ [][lastOp'.op = "Reset" =>
            /\ openDBs' = <<>>
            /\ sqlDriver' = ""
            /\ \A h \in CachedHandles : handles'[h].closed]_vars
    /\ [][(lastOp.op = "Reset" /\ lastOp'.op = "open") =>
            /\ lastOp'.db \notin DOMAIN handles
            /\ lastOp'.db \in DOMAIN handles'
            /\ ~handles'[lastOp'.db].closed]_vars
    /\ [](\A h \in DOMAIN handles : h \notin CachedHandles => handles[h].closed)

C24_Witness ==
    /\ lastOp.op = "open"
    /\ Len(handles) = 3
    /\ handles[1].closed
    /\ handles[2].closed
    /\ ~handles[3].closed
    /\ lastOp.db = 3
    /\ openDBs = (lastOp.conn :> 3)
    /\ handles[1].conn = lastOp.conn

\* C28: whatever sequence of open, Shutdown and Reset calls came before,
\* open never returns a handle that has been closed; an open after a
\* Shutdown without a Reset returns a live handle.
C28_OpenReturnsLiveHandle ==
    lastOp.op = "open" => ~handles[lastOp.db].closed

\* ------------------------------------------------------------------------
\* Database.ConnectionString and Database.CreateDatabase
\* ------------------------------------------------------------------------
\* CreateDatabase switching connection while keeping the cached string
SwitchToServerStale(d) == [d EXCEPT !.conn = [@ EXCEPT !.Database = ""]]

\* CreateDatabase after a failed Ping: conn := db.Connection();
\* conn.Database = ""; db.conn = &conn; db.connString = ""
SwitchToServer(d) ==
    [conn |-> [d.conn EXCEPT !.Database = ""], connString |-> <<>>]

\* db.ConnectionString() called by the owner of Database d
DbConnectionString(d) ==
    /\ databases' = [databases EXCEPT ![d] = CachedConnectionString(@)]
    /\ lastOp' = [op |-> "ConnectionString",
                  conn |-> ConnectionString(databases[d]), db |-> 0]
    /\ UNCHANGED <<openDBs, sqlDriver, handles, callerVars, repeatVars,
                   callVars, envVars>>

CreateDatabaseSQL == "CREATE DATABASE %s WITH OWNER = postgres ..."

\* what the driver answers to CREATE DATABASE: done, or one failure
CreateReplies == {reply \in ExecReplies : reply.err \in {Nil, NewError(<<"a">>)}}

\* db.CreateDatabase(): Ping; when it fails the Database switches to the
\* server connection and runs CREATE DATABASE through ExecNonQuery
CreateDatabase(d) ==
    /\ \E pingOK \in BOOLEAN :
          LET db1 == CachedConnectionString(databases[d])
              o1  == open(openDBs, handles, sqlDriver, db1.connString)
          IN  IF pingOK
              THEN /\ Len(o1.handles) <= MaxHandles
                   /\ databases' = [databases EXCEPT ![d] = db1]
                   /\ openDBs' = o1.openDBs
                   /\ handles' = o1.handles
                   /\ sqlDriver' = o1.sqlDriver
                   /\ lastOp' = [op |-> "CreateDatabase",
                                 conn |-> db1.connString, db |-> o1.db]
                   /\ out' = [done |-> TRUE, result |-> NewResult]
                   /\ UNCHANGED logs
              ELSE LET db2 == CachedConnectionString(SwitchToServer(db1))
                       o2  == open(o1.openDBs, o1.handles, o1.sqlDriver,
                                   db2.connString)
                   IN  /\ Len(o2.handles) <= MaxHandles
                       /\ databases' = [databases EXCEPT ![d] = db2]
                       /\ openDBs' = o2.openDBs
                       /\ handles' = o2.handles
                       /\ sqlDriver' = o2.sqlDriver
                       /\ lastOp' = [op |-> "CreateDatabase",
                                     conn |-> db2.connString, db |-> o2.db]
                       /\ \E reply \in CreateReplies :
                             /\ out' = [done |-> TRUE,
                                        result |-> exec(TRUE, reply)]
                             /\ logs' = logged(logs,
                                   Query(d, CreateDatabaseSQL, <<>>),
                                   execCmd(TRUE, reply).r,
                                   execCmd(TRUE, reply).err, <<>>)
    /\ UNCHANGED <<arg, callerVars, repeatVars, Log, table>>

DatabaseNext ==
    \/ \E d \in DbIds : DbConnectionString(d)
    \/ \E d \in DbIds : CreateDatabase(d)

SpecDatabase == CacheSpecInit /\ [][DatabaseNext]_vars

\* C30: after any sequence of ConnectionString and CreateDatabase calls on
\* a Database, ConnectionString() is non-empty and is the DSN rendering of
\* the Database's current Connection; the cached string is never stale.
C30_ConnectionStringNeverStale ==
    \A d \in DbIds :
        /\ ConnectionString(databases[d]) # <<>>
        /\ ConnectionString(databases[d]) = String(databases[d].conn)
        /\ databases[d].connString \in {<<>>, String(databases[d].conn)}

C30_Witness ==
    /\ lastOp.op = "CreateDatabase"
    /\ Len(handles) >= 2
    /\ handles[1].conn # handles[2].conn
    /\ lastOp.db = 2
    /\ \E d \in DbIds :
          /\ databases[d].conn.Database = ""
          /\ databases[d].connString = handles[2].conn
          /\ databases[d].connString = String(databases[d].conn)

\* ------------------------------------------------------------------------
\* The mode of a Repeat iteration
\* ------------------------------------------------------------------------
\* iteration k executes in this step
Executes(k) == iterPc[k] = "params" /\ iterPc'[k] = "executed"

\* what the driver answered to the execution of this step
LastReply == driverLog'[Len(driverLog')].reply

\* C25: every iteration takes its mode from the insert flag of the
\* template query, never from the per-iteration query, whose flag is not
\* set: with the flag the iteration captures the generated id through
\* setMeta and binds no rows into any destination; without it the
\* iteration binds the rows into the destination of ParamsFn(k), into no
\* other, and leaves LastInsertId and RowsAffected as NewResult made them.
C25_ModeFromTemplate ==
    [][\A k \in Idx : Executes(k) =>
          /\ ~qs[k].insert
          /\ query.insert =>
                /\ dests' = dests
                /\ work'[k].RowsReturned = 0
                /\ work'[k].LastInsertId.ID =
                      IF LastReply.err = Nil THEN LastReply.key ELSE IntKey(0)
                /\ (LastReply.err = Nil /\ LastReply.key = Int64Key(0)) =>
                      work'[k].LastInsertId.Err = Nil
                /\ work'[k].RowsAffected = [Count |-> -1, Err |-> NoRowsAffected]
          /\ ~query.insert =>
                /\ work'[k].LastInsertId = NewResult.LastInsertId
                /\ work'[k].RowsAffected = NewResult.RowsAffected
                /\ \A d \in DOMAIN dests :
                      d # ParamsFn(k).dest => dests'[d] = dests[d]
                /\ LastReply.err = Nil =>
                      dests'[ParamsFn(k).dest] = LastReply.rows]_vars

C25_Witness ==
    /\ N >= 2
    /\ query.insert
    /\ iterPc[1] = "executed"
    /\ ~qs[1].insert
    /\ work[1].LastInsertId.ID = Int64Key(7)
    /\ dests = [k \in Idx |-> 0]

\* C26: for the same driver outcome, an insert-mode iteration and a single
\* Exec produce Results that agree in LastInsertId.ID, LastInsertId.Err,
\* RowsAffected.Count, RowsAffected.Err, RowsReturned and Err.
C26_RepeatAgreesWithExec ==
    \A k \in Idx :
        (query.insert /\ iterPc[k] \notin {"idle", "params"}) =>
            \A j \in ExecutionsOf(k) :
                LET single == exec(FALSE, driverLog[j].reply)
                IN  /\ work[k].LastInsertId.ID = single.LastInsertId.ID
                    /\ work[k].LastInsertId.Err = single.LastInsertId.Err
                    /\ work[k].RowsAffected.Count = single.RowsAffected.Count
                    /\ work[k].RowsAffected.Err = single.RowsAffected.Err
                    /\ work[k].RowsReturned = single.RowsReturned
                    /\ work[k].Err = single.Err

\* ------------------------------------------------------------------------
\* The Query as a read-only value
\* ------------------------------------------------------------------------
\* C27: no step of Exec, ExecNonQuery, ExecSingle, ExecAll or Repeat.Exec
\* changes the Query it was called on, neither its SQL text nor its
\* arguments nor its insert flag, and the query an iteration of a Repeat
\* executes is one of its own: the template's SQL and Database, the
\* arguments of that iteration and no others, no insert flag.
C27_QueryUnchanged ==
    /\ [][query' = query /\ arg' = arg]_vars
    /\ [](\A k \in Idx : iterPc[k] \notin {"idle"} =>
             /\ qs[k].SQL = query.SQL
             /\ qs[k].Database = query.Database
             /\ qs[k].Args = ParamsFn(k).args
             /\ ~qs[k].insert)
    /\ [](\A j \in DOMAIN driverLog :
             \E k \in Idx : driverLog[j].args = ParamsFn(k).args)

C27_Witness ==
    /\ N >= 2
    /\ query.insert
    /\ query.Args = <<0>>
    /\ ret.returned
    /\ prepareErr = Nil
    /\ Len(driverLog) = N
    /\ qs[1].Args = <<11>>

\* ------------------------------------------------------------------------
\* The package-level Exec and ExecNonQuery
\* ------------------------------------------------------------------------
\* C29: the Query that Exec(sql, conn, a1..ak) and ExecNonQuery(sql, conn,
\* a1..ak) execute carries exactly the arguments a1..ak, k of them for
\* every k >= 0, as conn.NewDatabase().Query(sql, a1..ak) does.
C29_PackageExecArgs ==
    (arg.fn \in {"papergres.Exec", "papergres.ExecNonQuery"} /\ out.done) =>
        /\ Len(out.q.Args) = Len(arg.args)
        /\ out.q.Args = arg.args
        /\ out.q = PackageQuerySpread(arg.sql, arg.args)

\* ------------------------------------------------------------------------
\* Logging: the executions of SpecExec in a program that may install a
\* Logger before it executes anything.
\* ------------------------------------------------------------------------
\* Log = &testLogger{}
SetLog ==
    /\ ~Log
    /\ driverLog = <<>>
    /\ ~out.done
    /\ Log' = TRUE
    /\ UNCHANGED <<cacheVars, callerVars, repeatVars, callVars, logs, table>>

LogNext ==
    \/ ExecNext
    \/ SetLog

\* the executions of SpecExec, the Repeats among them of fewer than MaxN
\* iterations
LogInit == ExecInit /\ N < MaxN

SpecLog == LogInit /\ [][LogNext]_vars

\* the single call executes in this step
Runs == ~out.done /\ out'.done

\* the query the single call executes
RunQuery ==
    IF arg.fn \in {"papergres.Exec", "papergres.ExecNonQuery"}
    THEN out'.q ELSE arg.q

\* the queries executed so far
ExecutedCount ==
    Cardinality({k \in Idx : iterPc[k] \notin {"idle", "params"}})
      + (IF out.done THEN 1 ELSE 0)

\* the step hands the Logger exactly one text, made of q and r
LogsOnce(q, r) ==
    /\ Len(logs') = Len(logs) + 1
    /\ SubSeq(logs', 1, Len(logs)) = logs
    /\ logs'[Len(logs')].query = q
    /\ logs'[Len(logs')].result = r

\* C22: with a Logger installed, every executed query, a single Exec,
\* ExecNonQuery, ExecSingle or ExecAll and every iteration of a Repeat,
\* hands the Logger one text, rendered from the query and from the Result
\* as it is returned, its Err included; no other step logs; without a
\* Logger nothing is logged, and the Result is the same function of the
\* driver's answer either way.
C22_LoggedOncePerQuery ==
    /\ [][\A k \in Idx : Executes(k) =>
             /\ Log => LogsOnce(qs[k], work'[k])
             /\ ~Log => logs' = logs
             /\ work'[k].Err = LastReply.err
             /\ Reflects(work'[k], LastReply)]_vars
    /\ [][Runs =>
             /\ Log => LogsOnce(RunQuery, out'.result)
             /\ ~Log => logs' = logs
             /\ arg.fn \in {"Exec", "papergres.Exec"} =>
                   out'.result = exec(FALSE, out'.reply)
             /\ arg.fn \in {"ExecNonQuery", "papergres.ExecNonQuery"} =>
                   out'.result = exec(TRUE, out'.reply)]_vars
    /\ [][(~Runs /\ \A k \in Idx : ~Executes(k)) => logs' = logs]_vars
    /\ [](~Log => logs = <<>>)
    /\ [](Log => Len(logs) = ExecutedCount)

C22_Witness ==
    /\ Log
    /\ N >= 2
    /\ ret.returned
    /\ prepareErr = Nil
    /\ Len(logs) = N
    /\ logs[1].result.Err # Nil
    /\ logs[1].result = Returned(0)
    /\ logs[2].result.Err = Nil
    /\ logs[2].info = <<2, N>>

\* ------------------------------------------------------------------------
\* fields
\* ------------------------------------------------------------------------
\* the record fields was given, behind the pointer if there is one
FieldsStruct == IF arg.obj.kind = "ptr" THEN arg.obj.elem ELSE arg.obj

\* C23: for a record passed by value or by pointer, fields returns one
\* Field per declared attribute, in declaration order, each with that
\* attribute's name, value, type label, `db` tag and primary flag, and the
\* record is as it was.
C23_FieldsDescribeRecord ==
    [](( arg.fn = "fields" /\ out.done) =>
          /\ ~out.panicked
          /\ DOMAIN out.fields = DOMAIN FieldsStruct.fields
          /\ \A k \in DOMAIN out.fields :
                /\ out.fields[k].Name = FieldsStruct.fields[k].Name
                /\ out.fields[k].Value = FieldsStruct.fields[k].Value
                /\ out.fields[k].Tag = FieldsStruct.fields[k].db
                /\ out.fields[k].IsPrimary = (FieldsStruct.fields[k].db_pk = "true")
                /\ out.fields[k].Typeof # <<>>)
      /\ [][arg.fn = "fields" => arg' = arg]_vars

\* ------------------------------------------------------------------------
\* Schema.Insert and the read back of TestInsert: the record is inserted
\* into a table whose key the database generates, then the row with the
\* returned key is fetched into a new record of the same type.  The table
\* is the database's: it stores what the statement lists, column by
\* column, and hands a row back by the `db` tags of the destination.
\* ------------------------------------------------------------------------
SelectByKeySQL == "SELECT * FROM paper.book WHERE book_id = $1"

ErrNoRows == NewError(<<"sql: no rows in result set">>)

MissingDestination == NewError(<<"missing destination name">>)

\* the statement as the database reads it
StatementColumns(sql) ==
    SplitItems(Between(sql, " (", "\n)\nVALUES ("), "\n\t")

StatementPlaceholders(sql) ==
    SplitItems(Between(sql, "\n)\nVALUES (", "\n)\n"), "\n\t$")

StatementReturning(sql) == Between(sql, "RETURNING ", " as LastInsertId;")

\* the number a placeholder $n names, 0 when it names none
ParamIndex(item) ==
    IF \E n \in 1..9 : FormatInt(n) = item
    THEN CHOOSE n \in 1..9 : FormatInt(n) = item
    ELSE 0

\* the database accepts the insert: some columns, no column twice, one
\* placeholder per column, and exactly the arguments the placeholders name
Accepts(sql, args) ==
    LET cols == StatementColumns(sql)
        phs  == StatementPlaceholders(sql)
    IN  /\ cols # <<>>
        /\ Len(cols) = Len(phs)
        /\ \A j, k \in DOMAIN cols : cols[j] = cols[k] => j = k
        /\ {ParamIndex(phs[k]) : k \in DOMAIN phs} = 1..Len(args)

\* the row the insert stores under the generated key
StoredRow(sql, args, key) ==
    LET cols == StatementColumns(sql)
        phs  == StatementPlaceholders(sql)
    IN  [c \in {cols[k] : k \in DOMAIN cols} \cup {StatementReturning(sql)} |->
            IF \E k \in DOMAIN cols : cols[k] = c
            THEN args[ParamIndex(phs[CHOOSE k \in DOMAIN cols : cols[k] = c])]
            ELSE key]

\* the key of the sequence: one more than the greatest key of the table
NextKey(tbl) == 1 + CHOOSE k \in DOMAIN tbl : \A j \in DOMAIN tbl : j <= k

\* the table before the test inserts: the rows the setup script stored,
\* the last of them
TableInit ==
    5 :> [c \in {DbTags[k] : k \in DOMAIN DbTags} |->
            50 + CHOOSE k \in DOMAIN DbTags : DbTags[k] = c]

\* what the database answers to the insert of q: a failure, or, when it
\* accepts the statement, the generated key in the LastInsertId column
InsertReplies(tbl, q) ==
    {[err |-> NewError(m), key |-> NilKey, rows |-> 0] : m \in Msgs}
      \cup (IF Accepts(q.SQL, q.Args)
             THEN {[err |-> Nil, key |-> Int64Key(NextKey(tbl)), rows |-> 1]}
             ELSE {})

\* the record behind obj with nothing in any field: `var martian Book`
ZeroOf(obj) ==
    LET val == IF isPointer(obj) THEN obj.elem ELSE obj
    IN  [val EXCEPT !.fields =
            [k \in DOMAIN val.fields |-> [val.fields[k] EXCEPT !.Value = NilValue]]]

\* db.Get(dest, sql, key) as the database and the scan answer it: no row
\* for the key, a column without a destination, or dest filled by tag
GetByKey(tbl, dest, key) ==
    CASE key.val \notin DOMAIN tbl -> [err |-> ErrNoRows, dest |-> dest]
      [] \E c \in DOMAIN tbl[key.val] :
            \A k \in DOMAIN dest.fields : dest.fields[k].db # c ->
                [err |-> MissingDestination, dest |-> dest]
      [] OTHER ->
           [err |-> Nil,
            dest |-> [dest EXCEPT !.fields =
                [k \in DOMAIN dest.fields |->
                    IF dest.fields[k].db \in DOMAIN tbl[key.val]
                    THEN [dest.fields[k] EXCEPT
                            !.Value = tbl[key.val][dest.fields[k].db]]
                    ELSE dest.fields[k]]]]

\* the records of the round trip: every field carries a `db` tag, as the
\* fields of the tests' Book and Character do
RoundTripObjects ==
    {o \in Objects \cup NilKeyObjects :
        \A k \in DOMAIN (IF isPointer(o) THEN o.elem ELSE o).fields :
            (IF isPointer(o) THEN o.elem ELSE o).fields[k].db # <<>>}

RoundTripInit ==
    /\ CacheInit
    /\ databases = [d \in DbIds |-> NewDatabase(TestConn)]
    /\ CallersInit
    /\ RepeatIdle
    /\ arg \in {[fn |-> "Insert", obj |-> o, schema |-> "paper"] :
                  o \in RoundTripObjects}
    /\ out = [done |-> FALSE, stage |-> "start"]
    /\ Log = FALSE
    /\ logs = <<>>
    /\ table = TableInit

\* Schema.Insert(obj): insertSQL and insertArgs, then Query(...).Exec()
SchemaInsert ==
    /\ arg.fn = "Insert"
    /\ out.stage = "start"
    /\ IF insertSQL(arg.obj, arg.schema, FALSE).panicked
       THEN /\ out' = [done |-> TRUE, stage |-> "panicked"]
            /\ UNCHANGED <<cacheVars, logs, table>>
       ELSE LET q == Query(1, insertSQL(arg.obj, arg.schema, FALSE).sql,
                           insertArgs(arg.obj, FALSE))
            IN  /\ execDBOpen(q.Database)
                /\ \E reply \in InsertReplies(table, q) :
                      /\ out' = [done |-> FALSE, stage |-> "inserted",
                                 query |-> q, reply |-> reply,
                                 result |-> exec(FALSE, reply)]
                      /\ table' =
                            IF reply.err = Nil
                            THEN (reply.key.val :>
                                    StoredRow(q.SQL, q.Args, reply.key.val))
                                  @@ table
                            ELSE table
                      /\ logs' = logged(logs, q, execCmd(FALSE, reply).r,
                                        execCmd(FALSE, reply).err, <<>>)
    /\ UNCHANGED <<arg, callerVars, repeatVars, Log>>

\* db.Query(sql, bookid).ExecSingle(&martian) after an Insert without an
\* error; the driver may fail, else the database answers
SelectInserted ==
    /\ out.stage = "inserted"
    /\ out.result.Err = Nil
    /\ LET q == Query(1, SelectByKeySQL, <<out.result.LastInsertId.ID>>)
       IN  /\ execDBOpen(q.Database)
           /\ \E failure \in SingleReplies :
                 LET got == IF failure # Nil
                            THEN [err |-> failure, dest |-> ZeroOf(arg.obj)]
                            ELSE GetByKey(table, ZeroOf(arg.obj), q.Args[1])
                 IN  /\ out' = [done |-> TRUE, stage |-> "selected",
                                query |-> q, answered |-> failure = Nil,
                                result |-> out.result,
                                selected |-> execCommand(
                                    singleCmd(NewResult, got.err), got.err),
                                dest |-> got.dest]
                     /\ logs' = logged(logs, q, singleCmd(NewResult, got.err),
                                       got.err, <<>>)
    /\ UNCHANGED <<arg, callerVars, repeatVars, Log, table>>

RoundTripNext ==
    \/ SchemaInsert
    \/ SelectInserted

SpecRoundTrip == RoundTripInit /\ [][RoundTripNext]_vars

\* the record Insert was given, behind the pointer if there is one
InsertedStruct == IF arg.obj.kind = "ptr" THEN arg.obj.elem ELSE arg.obj

====
